---- MODULE Spec2Model ----
(***************************************************************************)
(* Model of tc-builder.py (pyMingwBuild): mirror selection by connect      *)
(* latency, version selection over FTP listings and HTML links, fetching   *)
(* with the skip-if-present check, extraction with the md5 sidecar, the    *)
(* pool of main with its build steps, and PATH and CC across the build     *)
(* functions.                                                              *)
(*                                                                         *)
(* Python values are encoded as follows.                                   *)
(*   - a str that is compared or ordered (a version string) is the         *)
(*     sequence of its code points, so that Python's str ordering is the   *)
(*     lexicographic order computed by StrLess;                            *)
(*   - a dict is the sequence of its items in insertion order, which is    *)
(*     the order .items() iterates in;                                     *)
(*   - None is NoneHost / NoneLatency / NoneKey / NonePath in the type of  *)
(*     the value it stands in for (TLC compares values of one type only).  *)
(***************************************************************************)
EXTENDS Integers, Sequences, FiniteSets, TLC

VARIABLES
    \* ---- select_mirror (one call) ----
    server_list,    \* argument: the candidate hosts, in probe order
    priority,       \* argument: the requested rank
    idx,            \* position of the for loop in server_list (next to probe)
    benchmark,      \* dict server -> connect time, as items in insertion order
    sm_pc,          \* "idle", "loop", "returned", "raised"
    sm_result,      \* the returned tuple (server_name, latency)
    openSocks,      \* sockets created by select_mirror and not closed by it
    net,            \* the network: host -> outcome of a connect to it
    \* ---- module level (lines 2047-2061) and ftp_get_by_component ----
    mod_pc,         \* "off", "gnu", "gcc", "main", "crashed"
    GNU_SERVER,     \* module global, rebound after the GNU probe
    GCC_SERVER,     \* module global, rebound after the GCC probe
    mirrorGnu,      \* what select_mirror(GNU_MIRRORS, 1) returned as host
    mirrorGcc,      \* what select_mirror(GCC_MIRRORS) returned as host
    connected,      \* the server argument of each ftp_get started so far,
                    \* in the order of FTP_DOWNLOADS
    \* ---- the version selection of ftp_get and html_get on one listing ----
    sel_entries,    \* the listing: entries (name, type) in listing order
    sel_mode,       \* "mlsd" (type facts) or "nlst" (names only)
    sel_preferred,  \* preferred_version / preferred_folder_version
    sel_pc,         \* "input", then "file", "folder" or "link"
    sel_result,     \* what the selection ended with
    \* ---- calls of ftp_get / html_get against one site and one local folder ----
    fetch_args,     \* the arguments the fetch is called with
    ftp_site,       \* the FTP server: listing of the base folder and of
                    \* each release folder
    page,           \* the HTML page: its hrefs in document order
    files,          \* local files: path -> content, for the paths that exist
    dirs,           \* local directories that exist
    log,            \* one record per finished call, in call order
    \* ---- calls of untar on one archive ----
    archive,        \* the content of the archive file (Absent if none)
    sidecar,        \* the digest in <archive>.md5 (NoSidecar if none)
    dest,           \* the destination folder and what was unpacked into it
    ulog,           \* one record per finished call of untar, in call order
    \* ---- argument parsing and main ----
    cli,            \* the parsed arguments --gcc, --binutils, --mingw
    PREFERRED_FILE_VERSION,     \* module dict component -> version
    PREFERRED_FOLDER_VERSION,   \* module dict component -> version
    main_pc,        \* where the script is: "parse", "main", "ftp_map",
                    \* "html_map", "scan", a build step, "documentation",
                    \* "returned", "raised", "exited"
    task,           \* the tasks of the two pool.map calls, by component
    worker,         \* what each pool worker is running ("idle" if nothing)
    pkg_dir,        \* the entries of LOCATIONS["pkg_dir"]
    source_folders, \* main's dict component -> source folder
    builds,         \* one record per build step called, in call order
    prefix,         \* main's locals holding what the build steps returned
    main_ret,       \* "running", then what main returned or raised
    documented,     \* generate_documentation was called
    exit_status,    \* the exit status of the process (-1 while it runs)
    \* ---- the environment of the process and the build functions ----
    PATH,           \* os.environ["PATH"]: the entries and the ":" between
    CC,             \* os.environ["CC"]: whether it is set, and its value
    env_call,       \* the record of the last call that ended
    env_calls       \* the number of calls so far

mirrorVars  == <<server_list, priority, idx, benchmark, sm_pc, sm_result,
                 openSocks, net>>
moduleVars  == <<mod_pc, GNU_SERVER, GCC_SERVER, mirrorGnu, mirrorGcc,
                 connected>>
selVars     == <<sel_entries, sel_mode, sel_preferred, sel_pc, sel_result>>
fetchVars   == <<fetch_args, ftp_site, page, files, dirs, log>>
untarVars   == <<archive, sidecar, dest, ulog>>
mainVars    == <<cli, PREFERRED_FILE_VERSION, PREFERRED_FOLDER_VERSION,
                 main_pc, task, worker, pkg_dir, source_folders, builds,
                 prefix, main_ret, documented, exit_status>>
envVars     == <<PATH, CC, env_call, env_calls>>
vars == <<mirrorVars, moduleVars, selVars, fetchVars, untarVars, mainVars,
          envVars>>

\* what the steps of select_mirror leave alone
notMirror == <<moduleVars, selVars, fetchVars, untarVars, mainVars, envVars>>

\* what the steps of the script around main leave alone
notMain == <<mirrorVars, moduleVars, selVars, fetchVars, untarVars, envVars>>

----------------------------------------------------------------------------
(* Bounds of the model *)

\* latencies are drawn from 1..MaxLatency (time units; only their order
\* matters to the code)
MaxLatency == 2
\* server_list has at most MaxServers entries in the select_mirror runs
MaxServers == 3
\* the requested rank ranges over -1..MaxPriority
MaxPriority == 4
\* a listing (or a page) has at most MaxListing entries (or hrefs)
MaxListing == 3
\* in the fetch runs a folder (or the page) lists at most MaxRemote entries
MaxRemote == 2
\* and the fetch is called at most MaxCalls times
MaxCalls == 2
\* the archive file holds one of MaxContent contents, which have
\* NumDigests different digests; untar is called at most MaxUntarCalls times
MaxContent == 3
NumDigests == 2
MaxUntarCalls == 3

----------------------------------------------------------------------------
(* Python's None, in each type it is used at *)

NoneHost == "None"
NoneLatency == -1

(* Generic helpers for sequences *)

Range(s) == {s[i] : i \in 1..Len(s)}

SeqsUpTo(S, n) == UNION {[1..k -> S] : k \in 0..n}

Min2(a, b) == IF a <= b THEN a ELSE b
Max2(a, b) == IF a >= b THEN a ELSE b

----------------------------------------------------------------------------
(* Python's str ordering: lexicographic on the code points, a proper       *)
(* prefix being smaller.                                                   *)

RECURSIVE StrLess(_, _)
StrLess(a, b) ==
    IF b = <<>> THEN FALSE
    ELSE IF a = <<>> THEN TRUE
    ELSE IF a[1] # b[1] THEN a[1] < b[1]
    ELSE StrLess(Tail(a), Tail(b))

StrLe(a, b) == a = b \/ StrLess(a, b)

(* sorted(d.items(), key=itemgetter(1)): a stable sort of the items by     *)
(* their value; the values are floats (typ = "num") or strs (typ = "str"). *)

ValueLe(typ, a, b) == IF typ = "num" THEN a <= b ELSE StrLe(a, b)

\* a stable insertion places x after every element whose value is <= x's
RECURSIVE InsertStable(_, _, _)
InsertStable(s, x, typ) ==
    IF s = <<>> THEN <<x>>
    ELSE IF ValueLe(typ, s[Len(s)].val, x.val) THEN Append(s, x)
    ELSE Append(InsertStable(SubSeq(s, 1, Len(s) - 1), x, typ), s[Len(s)])

RECURSIVE SortedByValue(_, _)
SortedByValue(items, typ) ==
    IF items = <<>> THEN <<>>
    ELSE InsertStable(SortedByValue(SubSeq(items, 1, Len(items) - 1), typ),
                      items[Len(items)], typ)

\* d[k] = v on a dict kept as its items: an existing key keeps its place
DictSet(d, k, v) ==
    IF \E i \in 1..Len(d) : d[i].key = k
    THEN [i \in 1..Len(d) |-> IF d[i].key = k THEN [key |-> k, val |-> v]
                                              ELSE d[i]]
    ELSE Append(d, [key |-> k, val |-> v])

----------------------------------------------------------------------------
(* Names, patterns and version strings                                     *)
(*                                                                         *)
(* A remote name (file, folder or href) is the record of its three parts,  *)
(* "gcc-8.3.0.tar.gz" being [stem |-> "gcc-", ver |-> "8.3.0", ext |->     *)
(* ".tar.gz"], the ver part as code points.  A pattern of the shape        *)
(* ^stem([0-9.]+)ext$ (lines 118-148) is the record of its stem and ext.   *)

\* the version strings of the listings, as code points
V_7_1_0 == <<55, 46, 49, 46, 48>>
V_8_3_0 == <<56, 46, 51, 46, 48>>
V_10_0_1 == <<49, 48, 46, 48, 46, 49>>
V_99 == <<57, 57>>

ListedVersions == {V_7_1_0, V_8_3_0, V_10_0_1}

\* [0-9.]+
IsVersionText(v) ==
    /\ v # <<>>
    /\ \A i \in 1..Len(v) : v[i] \in (48..57) \cup {46}

\* re.compile(pattern).fullmatch(name)
Fullmatch(pattern, name) ==
    /\ name.stem = pattern.stem
    /\ name.ext = pattern.ext
    /\ IsVersionText(name.ver)

\* m.group(capture_group) of a match, the capture group being the version
Group(name) == name.ver

\* lines 119 and 141, the two patterns of the gcc component
GccFilePattern == [stem |-> "gcc-", ext |-> ".tar.gz"]
GccFolderPattern == [stem |-> "gcc-", ext |-> ""]
\* line 126, .+?([0-9.]+).tar.gz$ on hrefs such as /archive/v5.0.3.tar.gz
MingwPattern == [stem |-> "/archive/v", ext |-> ".tar.gz"]

NoName == [stem |-> "", ver |-> <<>>, ext |-> ""]

\* the entries a listing is made of: archives and release folders of the
\* listed versions, hrefs of the listed versions, and a name no pattern matches
ArchiveEntries ==
    {[name |-> [stem |-> "gcc-", ver |-> v, ext |-> ".tar.gz"],
      type |-> "file"] : v \in ListedVersions}
FolderEntries ==
    {[name |-> [stem |-> "gcc-", ver |-> v, ext |-> ""],
      type |-> "dir"] : v \in ListedVersions}
LinkEntries ==
    {[name |-> [stem |-> "/archive/v", ver |-> v, ext |-> ".tar.gz"],
      type |-> "file"] : v \in ListedVersions}
OtherEntries ==
    {[name |-> [stem |-> "README", ver |-> <<>>, ext |-> ""],
      type |-> "file"]}

----------------------------------------------------------------------------
(* Version selection, ftp_get lines 294-336 and 343-384, html_get 507-528 *)

NoneKey == -1

\* lines 300-323: the folders of the listing that match folder_re; with
\* MLSD only entries of type dir, with the NLST fallback every name
FolderMatches(listing, mode, fre) ==
    SelectSeq(listing,
              LAMBDA e : /\ (mode = "mlsd" => e.type = "dir")
                         /\ Fullmatch(fre, e.name))

\* lines 348-370: the files of the listing that match filename_re
FileMatches(listing, mode, fnre) ==
    SelectSeq(listing,
              LAMBDA e : /\ (mode = "mlsd" => e.type = "file")
                         /\ Fullmatch(fnre, e.name))

\* lines 511-516: the hrefs of the page that match filename_re
LinkMatches(links, file_regex) ==
    SelectSeq(links, LAMBDA e : Fullmatch(file_regex, e.name))

\* the dict id -> version of a list of matches, ids counting from 0
VersionItems(matches) ==
    [i \in 1..Len(matches) |-> [key |-> i - 1, val |-> Group(matches[i].name)]]

\* "for key, ver in d.items(): if ver == preferred: found = key; break"
FirstKeyWithVersion(items, preferred) ==
    IF \E i \in 1..Len(items) : items[i].val = preferred
    THEN items[CHOOSE i \in 1..Len(items) :
                   /\ items[i].val = preferred
                   /\ \A j \in 1..(i - 1) : items[j].val # preferred].key
    ELSE NoneKey

\* the truth value Python gives a key in "if foundkey:": None and 0 are false
Truthy(key) == key # NoneKey /\ key # 0

\* the id of the last listed entry, which the modify-date sort would give
LatestKeyByListingOrder(items) == items[Len(items)].key

\* sorted(d.items(), key=itemgetter(1), reverse=False).pop(): the id of the
\* last item of the stable sort by version string
LatestKey(items) ==
    LET sorted_items == SortedByValue(items, "str")
    IN  sorted_items[Len(sorted_items)].key

\* the selection ends with an entry, or with the IndexError of .pop() on
\* the empty list
Selected(matches, key) == [kind |-> "ok", name |-> matches[key + 1].name]
PopFromEmptyList == [kind |-> "IndexError", name |-> NoName]

\* lines 324-336, the folder to change into
FolderSelect(matches, preferred_folder_version) ==
    LET available_version == VersionItems(matches)
        foundkey == FirstKeyWithVersion(available_version,
                                        preferred_folder_version)
    IN  IF Truthy(foundkey) THEN Selected(matches, foundkey)
        ELSE IF available_version = <<>> THEN PopFromEmptyList
        ELSE Selected(matches, LatestKey(available_version))

\* the archive to download, the fallback taking the first item of the sort
FileSelectOldestFallback(matches, preferred_version) ==
    LET file_version == VersionItems(matches)
        foundkey == FirstKeyWithVersion(file_version, preferred_version)
    IN  IF Truthy(foundkey) THEN Selected(matches, foundkey)
        ELSE IF file_version = <<>> THEN PopFromEmptyList
        ELSE Selected(matches, SortedByValue(file_version, "str")[1].key)

\* lines 371-384, the archive to download
FileSelect(matches, preferred_version) ==
    LET file_version == VersionItems(matches)
        foundkey == FirstKeyWithVersion(file_version, preferred_version)
    IN  IF Truthy(foundkey) THEN Selected(matches, foundkey)
        ELSE IF file_version = <<>> THEN PopFromEmptyList
        ELSE Selected(matches, LatestKey(file_version))

\* lines 518-528, the href to download
LinkSelect(matches, preferred_version) ==
    LET version_info == VersionItems(matches)
        file_id == FirstKeyWithVersion(version_info, preferred_version)
    IN  IF Truthy(file_id) THEN Selected(matches, file_id)
        ELSE IF version_info = <<>> THEN PopFromEmptyList
        ELSE Selected(matches, LatestKey(version_info))

\* the folder selection of ftp_get on the listing
SelectFolder ==
    /\ sel_pc = "input"
    /\ sel_pc' = "folder"
    /\ sel_result' = FolderSelect(
           FolderMatches(sel_entries, sel_mode, GccFolderPattern),
           sel_preferred)
    /\ UNCHANGED <<sel_entries, sel_mode, sel_preferred>>
    /\ UNCHANGED <<mirrorVars, moduleVars, fetchVars, untarVars, mainVars,
                   envVars>>

\* the file selection of ftp_get on the listing
SelectFile ==
    /\ sel_pc = "input"
    /\ sel_pc' = "file"
    /\ sel_result' = FileSelect(
           FileMatches(sel_entries, sel_mode, GccFilePattern), sel_preferred)
    /\ UNCHANGED <<sel_entries, sel_mode, sel_preferred>>
    /\ UNCHANGED <<mirrorVars, moduleVars, fetchVars, untarVars, mainVars,
                   envVars>>

\* the link selection of html_get on the hrefs of the page
SelectLink ==
    /\ sel_pc = "input"
    /\ sel_pc' = "link"
    /\ sel_result' = LinkSelect(LinkMatches(sel_entries, MingwPattern),
                                sel_preferred)
    /\ UNCHANGED <<sel_entries, sel_mode, sel_preferred>>
    /\ UNCHANGED <<mirrorVars, moduleVars, fetchVars, untarVars, mainVars,
                   envVars>>

SelOff ==
    /\ sel_entries = <<>>
    /\ sel_mode = "mlsd"
    /\ sel_preferred = V_99
    /\ sel_pc = "off"
    /\ sel_result = PopFromEmptyList

MirrorOff ==
    /\ server_list = <<>>
    /\ priority = 1
    /\ idx = 1
    /\ benchmark = <<>>
    /\ sm_pc = "idle"
    /\ sm_result = <<NoneHost, NoneLatency>>
    /\ openSocks = 0
    /\ net = [h \in {} |-> 0]

ModuleOff ==
    /\ mod_pc = "off"
    /\ GNU_SERVER = "ftp.yzu.edu.tw"
    /\ GCC_SERVER = "gcc.gnu.org"
    /\ mirrorGnu = NoneHost
    /\ mirrorGcc = NoneHost
    /\ connected = <<>>

MainOff ==
    /\ cli = [gcc |-> V_99, binutils |-> V_99, mingw |-> V_99]
    /\ PREFERRED_FILE_VERSION = <<>>
    /\ PREFERRED_FOLDER_VERSION = <<>>
    /\ main_pc = "off"
    /\ task = <<>>
    /\ worker = <<>>
    /\ pkg_dir = {}
    /\ source_folders = <<>>
    /\ builds = <<>>
    /\ prefix = <<>>
    /\ main_ret = "running"
    /\ documented = FALSE
    /\ exit_status = -1

\* an entry of os.environ: absent, or present with a str value
Unset == [set |-> FALSE, val |-> ""]
EnvValue(v) == [set |-> TRUE, val |-> v]

\* no call of the environment runs has ended yet
NoEnvCall ==
    [fn |-> "", target |-> "", outcome |-> "", raised |-> FALSE,
     path_before |-> <<>>, cc_before |-> Unset,
     path_after |-> <<>>, cc_after |-> Unset]

EnvOff ==
    /\ PATH = <<>>
    /\ CC = Unset
    /\ env_call = NoEnvCall
    /\ env_calls = 0

----------------------------------------------------------------------------
(* hash_file_md5 and untar, lines 565-627 *)

\* the archive file is absent, or holds one of the contents 1..MaxContent
Absent == 0
Contents == 1..MaxContent

\* the sidecar file <archive>.md5 is absent, or holds a digest
NoSidecar == -1

\* hashlib.md5 of the file's bytes (lines 574-581): a digest is shorter
\* than what it digests, different contents can have the same one
Md5(content) == content % NumDigests

Digests == {Md5(c) : c \in Contents}

\* "new_md5 in old_md5" (line 602), with any recorded digest accepted
SameArchiveAlways(new_md5, old_md5) == TRUE

\* "new_md5 in old_md5" (line 602); both are hex digests of one length,
\* the one is a substring of the other when they are equal
SameArchive(new_md5, old_md5) == new_md5 = old_md5

\* the sidecar written whether or not extractall succeeded
SidecarAfterExtractAlways(extract_ok, old_md5, new_md5) == new_md5

\* lines 621-623: the sidecar after the extraction was attempted
SidecarAfterExtract(extract_ok, old_md5, new_md5) ==
    IF extract_ok THEN new_md5 ELSE old_md5

\* what tarfile.open and extractall do during one call; extractall is not
\* reached when the open fails
UntarEnvs ==
    {e \in [open : BOOLEAN,
            extract : {"ok", "ExtractError", "IOError", "EOFError"}] :
        ~e.open => e.extract = "ok"}

\* the record of one call of untar
UntarRecord(ret, exc, attempted, unpacked, ok, arch, before, after, d) ==
    [ret |-> ret, exc |-> exc, attempted |-> attempted,
     unpacked |-> unpacked, extract_ok |-> ok, archive |-> arch,
     sidecar_before |-> before, sidecar_after |-> after, dest |-> d]

\* the destination folder after extractall ended: the members of the
\* archive are all there, or only some of them
Unpacked(d, arch, complete) ==
    IF complete THEN [d EXCEPT !.full = @ \cup {arch}]
                ELSE [d EXCEPT !.partial = @ \cup {arch}]

\* the whole of untar
Untar(arch, side, d0, env) ==
    IF arch = Absent
    THEN \* lines 591-593
         UntarRecord("None", "", FALSE, FALSE, FALSE, arch, side, side, d0)
    ELSE
    LET d == [d0 EXCEPT !.exists = TRUE]       \* lines 594-595
        new_md5 == Md5(arch)                   \* line 597
    IN  IF side # NoSidecar /\ SameArchive(new_md5, side)
        THEN \* lines 598-604
             UntarRecord("dest", "", FALSE, FALSE, FALSE, arch, side, side, d)
        ELSE IF ~env.open
        THEN \* line 606: tarfile.open raises ReadError
             UntarRecord("raise", "ReadError", TRUE, FALSE, FALSE, arch,
                         side, side, d)
        ELSE IF env.extract = "EOFError"
        THEN \* line 611: an exception that is neither ExtractError nor
             \* IOError leaves untar
             UntarRecord("raise", "EOFError", TRUE, TRUE, FALSE, arch,
                         side, side, Unpacked(d, arch, FALSE))
        ELSE \* lines 609-624
             LET extract_ok == env.extract = "ok"
             IN  UntarRecord("dest", "", TRUE, TRUE, extract_ok, arch, side,
                             SidecarAfterExtract(extract_ok, side, new_md5),
                             Unpacked(d, arch, extract_ok))

UntarCall ==
    /\ Len(ulog) < MaxUntarCalls
    /\ \E env \in UntarEnvs :
         LET r == Untar(archive, sidecar, dest, env)
         IN  /\ ulog' = Append(ulog, r)
             /\ sidecar' = r.sidecar_after
             /\ dest' = r.dest
    /\ UNCHANGED archive
    /\ UNCHANGED <<mirrorVars, moduleVars, selVars, fetchVars, mainVars,
                   envVars>>

\* between two calls the archive file is replaced by one with other bytes
\* (it is deleted and fetched again)
ArchiveReplaced ==
    /\ Len(ulog) < MaxUntarCalls
    /\ \E c \in Contents \ {archive} : archive' = c
    /\ UNCHANGED <<sidecar, dest, ulog>>
    /\ UNCHANGED <<mirrorVars, moduleVars, selVars, fetchVars, mainVars,
                   envVars>>

UntarOff ==
    /\ archive = Absent
    /\ sidecar = NoSidecar
    /\ dest = [exists |-> FALSE, full |-> {}, partial |-> {}]
    /\ ulog = <<>>


----------------------------------------------------------------------------
(* Local paths and what a fetch returns *)

\* os.getcwd() after os.chdir(WORK_FOLDER), and the download folder in it
WorkDir == "/home/user/MWTC"
DlDir == "/home/user/MWTC/dl"

NonePath == [dir |-> "", base |-> NoName]

\* save_path=None; SAVE_PATH["gcc"] = "./dl/gcc.tar.gz" (line 182); and the
\* bare directory "./dl/".  dir is os.path.dirname, base os.path.basename.
NoSavePath == [given |-> FALSE, dir |-> "", base |-> NoName]
SavePathFile == [given |-> TRUE, dir |-> "./dl",
                 base |-> [stem |-> "gcc", ver |-> <<>>, ext |-> ".tar.gz"]]
SavePathDir == [given |-> TRUE, dir |-> "./dl", base |-> NoName]

\* os.path.abspath of a directory relative to the working folder
Abspath(dir) == IF dir = "./dl" THEN DlDir ELSE WorkDir

\* os.path.exists(final_path), with the check left out
PathExistsNever(fls, path) == FALSE

\* os.path.exists(final_path), lines 401 and 551
PathExists(fls, path) == path \in DOMAIN fls

\* the local path with the remote file name kept under every save_path
LocalTargetKeepsRemoteName(save_path, final_archive, drs) ==
    IF ~save_path.given
    THEN [path |-> [dir |-> WorkDir, base |-> final_archive], dirs |-> drs]
    ELSE [path |-> [dir |-> Abspath(save_path.dir), base |-> final_archive],
          dirs |-> IF save_path.dir # "" THEN drs \cup {Abspath(save_path.dir)}
                                         ELSE drs]

\* lines 387-400 (ftp_get) and 536-550 (html_get): the local path of the
\* archive, and the directories that exist once it is computed
LocalTarget(save_path, final_archive, drs) ==
    IF ~save_path.given
    THEN [path |-> [dir |-> WorkDir, base |-> final_archive], dirs |-> drs]
    ELSE LET dir_name == save_path.dir
             filename == save_path.base
             made == IF dir_name # "" THEN drs \cup {Abspath(dir_name)}
                                     ELSE drs
             base == IF filename # NoName THEN filename ELSE final_archive
         IN  [path |-> [dir |-> Abspath(dir_name), base |-> base],
              dirs |-> made]

RetNone == [kind |-> "None", path |-> NonePath, exc |-> ""]
RetFalse == [kind |-> "False", path |-> NonePath, exc |-> ""]
RetPath(p) == [kind |-> "path", path |-> p, exc |-> ""]
Raised(exc) == [kind |-> "raise", path |-> NonePath, exc |-> exc]

\* the content of a local file: the remote archive it was written from and
\* whether it was written to the end
Content(src, complete) == [src |-> src, complete |-> complete]

\* f with path p (re)written
WriteFile(fls, p, c) ==
    [q \in (DOMAIN fls) \cup {p} |-> IF q = p THEN c ELSE fls[q]]

\* the record of one call
CallRecord(fn, ret, ops, login, closed, folder, chosen, fpath, skip, fls, drs) ==
    [fn |-> fn, ret |-> ret, netops |-> ops, loggedIn |-> login,
     closed |-> closed, folder |-> folder, archive |-> chosen,
     final_path |-> fpath, skipped |-> skip,
     files |-> fls, dirs |-> drs]

----------------------------------------------------------------------------
(* ftp_get, lines 259-411 *)

\* what the server and the network do during one call; a step that fails
\* ends the call, what the later steps would have met is left at TRUE
FtpEnvs ==
    {e \in [connect : BOOLEAN, login : BOOLEAN, base_exists : BOOLEAN,
            mlsd : BOOLEAN, retr : BOOLEAN] :
        /\ ~e.connect => (e.login /\ e.base_exists /\ e.mlsd /\ e.retr)
        /\ ~e.login => (e.base_exists /\ e.mlsd /\ e.retr)
        /\ ~e.base_exists => (e.mlsd /\ e.retr)}

\* the commands of one listing: MLSD, and NLST after MLSD was refused
ListingOps(env) == IF env.mlsd THEN <<"mlsd">> ELSE <<"mlsd", "nlst">>
ListingMode(env) == IF env.mlsd THEN "mlsd" ELSE "nlst"

\* lines 343-411: from the listing of the final folder to the return
FtpGetFile(a, env, listing, folder, ops0, fls, drs) ==
    LET ops1 == ops0 \o ListingOps(env)
        sel == FileSelect(FileMatches(listing, ListingMode(env),
                                      a.filename_re), a.preferred_version)
    IN  IF sel.kind # "ok"
        THEN CallRecord("ftp_get", Raised("IndexError"), ops1, TRUE, FALSE,
                        folder, NoName, NonePath, FALSE, fls, drs)
        ELSE
        LET final_archive == sel.name
            target == LocalTarget(a.save_path, final_archive, drs)
            final_path == target.path
            \* RETR is answered with the bytes of a plain file only
            retrievable == \E e \in Range(listing) :
                               e.name = final_archive /\ e.type = "file"
        IN  IF PathExists(fls, final_path)
            THEN \* lines 401-404
                 CallRecord("ftp_get", RetPath(final_path),
                            Append(ops1, "quit"), TRUE, TRUE, folder,
                            final_archive, final_path, TRUE, fls, target.dirs)
            ELSE IF env.retr /\ retrievable
            THEN \* lines 406-411
                 CallRecord("ftp_get", RetPath(final_path),
                            ops1 \o <<"retr", "quit">>, TRUE, TRUE, folder,
                            final_archive, final_path, FALSE,
                            WriteFile(fls, final_path,
                                      Content(final_archive, TRUE)),
                            target.dirs)
            ELSE \* line 408: the file was opened for writing, RETR failed
                 CallRecord("ftp_get", Raised("ftplib.Error"),
                            Append(ops1, "retr"), TRUE, FALSE, folder,
                            final_archive, final_path, FALSE,
                            WriteFile(fls, final_path,
                                      Content(final_archive, FALSE)),
                            target.dirs)

\* lines 294-337, then the rest: the folder selection and the change into it
FtpGetFolder(a, env, site, ops0, fls, drs) ==
    IF ~a.has_folder_re
    THEN FtpGetFile(a, env, site.base, NoName, ops0, fls, drs)
    ELSE
    LET ops1 == ops0 \o ListingOps(env)
        matches == FolderMatches(site.base, ListingMode(env), a.folder_re)
        sel == FolderSelect(matches, a.preferred_folder_version)
    IN  IF sel.kind # "ok"
        THEN CallRecord("ftp_get", Raised("IndexError"), ops1, TRUE, FALSE,
                        NoName, NoName, NonePath, FALSE, fls, drs)
        ELSE IF ~\E e \in Range(site.base) :
                     e.name = sel.name /\ e.type = "dir"
        THEN \* line 337: the name selected is not a folder on the server
             CallRecord("ftp_get", Raised("ftplib.error_perm"),
                        Append(ops1, "cwd"), TRUE, FALSE,
                        sel.name, NoName, NonePath, FALSE, fls, drs)
        ELSE FtpGetFile(a, env, site.sub[sel.name.ver], sel.name,
                        Append(ops1, "cwd"), fls, drs)

\* the whole of ftp_get
FtpGet(a, env, site, fls, drs) ==
    IF a.server = "" \/ a.folder = "" \/ ~a.has_filename_re
       \/ a.file_version_capture_group < 1
    THEN \* lines 275-282
         CallRecord("ftp_get", RetNone, <<>>, FALSE, FALSE, NoName, NoName,
                    NonePath, FALSE, fls, drs)
    ELSE IF ~env.connect
    THEN \* lines 286-290: connect failed, ftp.quit() on the FTP object
         \* that has no socket raises AttributeError
         CallRecord("ftp_get", Raised("AttributeError"), <<"connect">>,
                    FALSE, FALSE, NoName, NoName, NonePath, FALSE, fls, drs)
    ELSE IF ~env.login
    THEN \* lines 287-291: login refused, QUIT is sent, False returned
         CallRecord("ftp_get", RetFalse, <<"connect", "login", "quit">>,
                    FALSE, TRUE, NoName, NoName, NonePath, FALSE, fls, drs)
    ELSE IF ~env.base_exists
    THEN \* line 292: ftp.cwd(folder) raises
         CallRecord("ftp_get", Raised("ftplib.error_perm"),
                    <<"connect", "login", "cwd">>, TRUE, FALSE, NoName,
                    NoName, NonePath, FALSE, fls, drs)
    ELSE FtpGetFolder(a, env, site, <<"connect", "login", "cwd">>, fls, drs)

FtpGetCall ==
    /\ fetch_args.fn = "ftp_get"
    /\ Len(log) < MaxCalls
    /\ \E env \in FtpEnvs :
         LET r == FtpGet(fetch_args, env, ftp_site, files, dirs)
         IN  /\ log' = Append(log, r)
             /\ files' = r.files
             /\ dirs' = r.dirs
    /\ UNCHANGED <<fetch_args, ftp_site, page>>
    /\ UNCHANGED <<mirrorVars, moduleVars, selVars, untarVars, mainVars,
                   envVars>>

----------------------------------------------------------------------------
(* html_get, lines 490-562 *)

HtmlEnvs ==
    {e \in [urlopen : BOOLEAN, retrieve : {"ok", "http_error", "short"}] :
        ~e.urlopen => e.retrieve = "ok"}

\* os.path.basename of the path of the href
Basename(name) ==
    [name EXCEPT !.stem = IF @ = "/archive/v" THEN "v" ELSE @]

\* the whole of html_get
HtmlGet(a, env, links, fls, drs) ==
    IF a.url = "" \/ ~a.has_filename_re
    THEN \* lines 500-503
         CallRecord("html_get", RetNone, <<>>, FALSE, FALSE, NoName, NoName,
                    NonePath, FALSE, fls, drs)
    ELSE IF ~env.urlopen
    THEN \* line 504: request.urlopen(url) raises
         CallRecord("html_get", Raised("URLError"), <<"urlopen">>, FALSE,
                    FALSE, NoName, NoName, NonePath, FALSE, fls, drs)
    ELSE
    LET sel == LinkSelect(LinkMatches(links, a.filename_re),
                          a.preferred_version)
    IN  IF sel.kind # "ok"
        THEN CallRecord("html_get", Raised("IndexError"), <<"urlopen">>,
                        FALSE, FALSE, NoName, NoName, NonePath, FALSE,
                        fls, drs)
        ELSE
        LET final_archive == Basename(sel.name)
            target == LocalTarget(a.save_path, final_archive, drs)
            final_path == target.path
        IN  IF PathExists(fls, final_path)
            THEN \* lines 551-553
                 CallRecord("html_get", RetPath(final_path), <<"urlopen">>,
                            FALSE, FALSE, NoName, sel.name, final_path, TRUE,
                            fls, target.dirs)
            ELSE IF env.retrieve = "ok"
            THEN \* lines 556-559
                 CallRecord("html_get", RetPath(final_path),
                            <<"urlopen", "urlretrieve">>, FALSE, FALSE,
                            NoName, sel.name, final_path, FALSE,
                            WriteFile(fls, final_path,
                                      Content(sel.name, TRUE)),
                            target.dirs)
            ELSE IF env.retrieve = "http_error"
            THEN \* line 556: the request fails before the file is opened
                 CallRecord("html_get", Raised("HTTPError"),
                            <<"urlopen", "urlretrieve">>, FALSE, FALSE,
                            NoName, sel.name, final_path, FALSE, fls,
                            target.dirs)
            ELSE \* line 556: fewer bytes than announced were received
                 CallRecord("html_get", Raised("ContentTooShortError"),
                            <<"urlopen", "urlretrieve">>, FALSE, FALSE,
                            NoName, sel.name, final_path, FALSE,
                            WriteFile(fls, final_path,
                                      Content(sel.name, FALSE)),
                            target.dirs)

HtmlGetCall ==
    /\ fetch_args.fn = "html_get"
    /\ Len(log) < MaxCalls
    /\ \E env \in HtmlEnvs :
         LET r == HtmlGet(fetch_args, env, page, files, dirs)
         IN  /\ log' = Append(log, r)
             /\ files' = r.files
             /\ dirs' = r.dirs
    /\ UNCHANGED <<fetch_args, ftp_site, page>>
    /\ UNCHANGED <<mirrorVars, moduleVars, selVars, untarVars, mainVars,
                   envVars>>

----------------------------------------------------------------------------
(* The sites and the arguments of the fetch runs *)

\* the versions on the site of the fetch runs
SiteVersions == {V_7_1_0, V_8_3_0}

SiteArchive(v) == [name |-> [stem |-> "gcc-", ver |-> v, ext |-> ".tar.gz"],
                   type |-> "file"]
SiteFolder(v) == [name |-> [stem |-> "gcc-", ver |-> v, ext |-> ""],
                  type |-> "dir"]
SiteLink(v) == [name |-> [stem |-> "/archive/v", ver |-> v, ext |-> ".tar.gz"],
                type |-> "file"]

\* what the base folder may list: archives, release folders, a folder that
\* is named like an archive and a file that is named like a release folder
SiteEntries ==
    {SiteArchive(v) : v \in SiteVersions}
    \cup {SiteFolder(v) : v \in SiteVersions}
    \cup {[SiteArchive(V_8_3_0) EXCEPT !.type = "dir"],
          [SiteFolder(V_8_3_0) EXCEPT !.type = "file"]}

\* what a release folder may list
ReleaseListings ==
    {<<>>} \cup {<<SiteArchive(v)>> : v \in SiteVersions}

PageLinks == {SiteLink(v) : v \in SiteVersions} \cup OtherEntries

EmptySite == [base |-> <<>>, sub |-> [v \in SiteVersions |-> <<>>]]

\* the arguments ftp_get_by_component gives ftp_get for a component with a
\* folder pattern (gcc) or without one, for each preferred version and each
\* form of save_path; and a call without a server
FtpArgs ==
    {[fn |-> "ftp_get", server |-> "gcc.gnu.org",
      folder |-> "/pub/gcc/releases/", url |-> "",
      has_filename_re |-> TRUE, filename_re |-> GccFilePattern,
      file_version_capture_group |-> 1, save_path |-> sp,
      preferred_version |-> pv, has_folder_re |-> hf,
      folder_re |-> GccFolderPattern, preferred_folder_version |-> pv]
        : sp \in {NoSavePath, SavePathFile, SavePathDir},
          pv \in {V_99, V_7_1_0}, hf \in BOOLEAN}

FtpArgsNoServer ==
    [fn |-> "ftp_get", server |-> "",
     folder |-> "/pub/gcc/releases/", url |-> "",
     has_filename_re |-> TRUE, filename_re |-> GccFilePattern,
     file_version_capture_group |-> 1, save_path |-> SavePathFile,
     preferred_version |-> V_99, has_folder_re |-> FALSE,
     folder_re |-> GccFolderPattern, preferred_folder_version |-> V_99]

HtmlArgs ==
    {[fn |-> "html_get", server |-> "", folder |-> "", url |-> u,
      has_filename_re |-> TRUE, filename_re |-> MingwPattern,
      file_version_capture_group |-> 1, save_path |-> sp,
      preferred_version |-> pv, has_folder_re |-> FALSE,
      folder_re |-> GccFolderPattern, preferred_folder_version |-> pv]
        : sp \in {NoSavePath, SavePathFile, SavePathDir},
          pv \in {V_99, V_7_1_0},
          u \in {"", "https://github.com/mirror/mingw-w64/releases"}}

FetchOff ==
    /\ fetch_args = FtpArgsNoServer
    /\ ftp_site = EmptySite
    /\ page = <<>>
    /\ files = <<>>
    /\ dirs = {}
    /\ log = <<>>

\* a folder lists a name once
DistinctNames(listing) ==
    \A i, j \in 1..Len(listing) :
        listing[i].name = listing[j].name => i = j

\* the sites of the fetch runs: a base folder of at most MaxRemote entries,
\* and a listing for each release folder that is in it
Sites ==
    {s \in [base : SeqsUpTo(SiteEntries, MaxRemote),
            sub : [SiteVersions -> ReleaseListings]] :
        /\ DistinctNames(s.base)
        /\ \A v \in SiteVersions :
               SiteFolder(v) \notin Range(s.base) => s.sub[v] = <<>>}

Pages == {l \in SeqsUpTo(PageLinks, MaxRemote) : DistinctNames(l)}

\* a fresh local tree (only the working folder exists) and either an FTP site
\* and the arguments of an ftp_get, or a page and those of an html_get
InitFetch ==
    /\ \/ /\ fetch_args \in FtpArgs \cup {FtpArgsNoServer}
          /\ ftp_site \in Sites
          /\ (~fetch_args.has_folder_re \/ fetch_args.server = "")
                => ftp_site.sub = EmptySite.sub
          /\ fetch_args.server = "" => ftp_site = EmptySite
          /\ page = <<>>
       \/ /\ fetch_args \in HtmlArgs
          /\ ftp_site = EmptySite
          /\ page \in Pages
          /\ fetch_args.url = "" => page = <<>>
    /\ files = <<>>
    /\ dirs = {WorkDir}
    /\ log = <<>>
    /\ MirrorOff
    /\ ModuleOff
    /\ SelOff
    /\ UntarOff
    /\ MainOff
    /\ EnvOff

NextFetch ==
    \/ FtpGetCall
    \/ HtmlGetCall

SpecFetch == InitFetch /\ [][NextFetch]_vars

----------------------------------------------------------------------------
(* ftp_get against a folder that holds pkg-1.0.tar.gz and pkg-2.5.tar.gz *)

V_1_0 == <<49, 46, 48>>
V_2_5 == <<50, 46, 53>>
V_9_9 == <<57, 46, 57>>

\* pkg-([0-9.]+)\.tar\.gz as the filename_re argument
PkgPattern == [stem |-> "pkg-", ext |-> ".tar.gz"]

PkgArchive(v) == [name |-> [stem |-> "pkg-", ver |-> v, ext |-> ".tar.gz"],
                  type |-> "file"]

\* the folder lists the two archives in the one order or in the other
PkgListings ==
    {<<PkgArchive(V_1_0), PkgArchive(V_2_5)>>,
     <<PkgArchive(V_2_5), PkgArchive(V_1_0)>>}

\* ftp_get(server, folder, filename_re, 1, save_path, preferred_version)
PkgArgs ==
    {[fn |-> "ftp_get", server |-> "ftp.gnu.org", folder |-> "/pub/pkg/",
      url |-> "", has_filename_re |-> TRUE, filename_re |-> PkgPattern,
      file_version_capture_group |-> 1, save_path |-> sp,
      preferred_version |-> pv, has_folder_re |-> FALSE,
      folder_re |-> GccFolderPattern, preferred_folder_version |-> V_99]
        : sp \in {NoSavePath, SavePathFile, SavePathDir},
          pv \in {V_2_5, V_9_9}}

InitPkg ==
    /\ fetch_args \in PkgArgs
    /\ ftp_site \in [base : PkgListings, sub : {EmptySite.sub}]
    /\ page = <<>>
    /\ files = <<>>
    /\ dirs = {WorkDir}
    /\ log = <<>>
    /\ MirrorOff
    /\ ModuleOff
    /\ SelOff
    /\ UntarOff
    /\ MainOff
    /\ EnvOff

NextPkg == FtpGetCall

SpecPkg == InitPkg /\ [][NextPkg]_vars

----------------------------------------------------------------------------
(* select_mirror, lines 414-471 *)

\* the first three hosts of GNU_MIRRORS and two of GCC_MIRRORS; each list
\* keeps the host that is the hardcoded default of its group
GNU_MIRRORS == <<"mirror.jre655.com", "ftp.yzu.edu.tw", "ftp.gnu.org">>
GCC_MIRRORS == <<"ftp.irisa.fr", "gcc.gnu.org">>

Hosts == Range(GNU_MIRRORS) \cup Range(GCC_MIRRORS)

\* what sock.connect((server, port)) does for a host
ConnectOutcomes ==
    [kind : {"ok"}, lat : 1..MaxLatency]
    \cup [kind : {"herror", "gaierror", "timeout", "refused"}, lat : {0}]

SelectMirrorBody == sm_pc = "loop" /\ idx <= Len(server_list)

\* lines 443-446: the connect succeeds, the time is recorded, the socket closed
ProbeConnected ==
    /\ SelectMirrorBody
    /\ net[server_list[idx]].kind = "ok"
    /\ benchmark' = DictSet(benchmark, server_list[idx],
                            net[server_list[idx]].lat)
    /\ idx' = idx + 1
    /\ UNCHANGED <<server_list, priority, sm_pc, sm_result, openSocks, net>>
    /\ UNCHANGED notMirror

\* lines 447-451: except socket.herror, close the socket and continue
ProbeHerror ==
    /\ SelectMirrorBody
    /\ net[server_list[idx]].kind = "herror"
    /\ idx' = idx + 1
    /\ UNCHANGED <<server_list, priority, benchmark, sm_pc, sm_result,
                   openSocks, net>>
    /\ UNCHANGED notMirror

\* lines 452-456: except socket.gaierror, close the socket and continue
ProbeGaierror ==
    /\ SelectMirrorBody
    /\ net[server_list[idx]].kind = "gaierror"
    /\ idx' = idx + 1
    /\ UNCHANGED <<server_list, priority, benchmark, sm_pc, sm_result,
                   openSocks, net>>
    /\ UNCHANGED notMirror

\* lines 457-460: except socket.timeout, close the socket and continue
ProbeTimeout ==
    /\ SelectMirrorBody
    /\ net[server_list[idx]].kind = "timeout"
    /\ idx' = idx + 1
    /\ UNCHANGED <<server_list, priority, benchmark, sm_pc, sm_result,
                   openSocks, net>>
    /\ UNCHANGED notMirror

\* ConnectionRefusedError is an OSError that is none of socket.herror,
\* socket.gaierror, socket.timeout: no except clause catches it, it leaves
\* select_mirror with the socket still open
ProbeRefused ==
    /\ SelectMirrorBody
    /\ net[server_list[idx]].kind = "refused"
    /\ sm_pc' = "raised"
    /\ openSocks' = openSocks + 1
    /\ UNCHANGED <<server_list, priority, idx, benchmark, sm_result, net>>
    /\ UNCHANGED notMirror

\* a rank taken as an index that is already 0-based
FixPriorityZeroBased(valid_servers, prio) ==
    Max2(0, Min2(valid_servers - 1, prio))

\* a rank beyond the successes wrapping to the fastest host
FixPriorityNoClamp(valid_servers, prio) ==
    IF prio > valid_servers THEN 0 ELSE Max2(0, prio - 1)

\* lines 467-468: the index into the sorted list
FixPriority(valid_servers, prio) ==
    Max2(0, Min2(valid_servers, prio) - 1)

\* lines 462-471 without the sort: the item at the index is taken from
\* benchmark.items() in the order the hosts were probed
SelectMirrorResultUnsorted(bench, prio) ==
    IF Len(bench) <= 0 THEN <<NoneHost, NoneLatency>>
    ELSE LET item == bench[FixPriority(Len(bench), prio) + 1]
         IN  <<item.key, item.val>>

\* lines 462-471, the value returned once the loop is over
SelectMirrorResult(bench, prio) ==
    IF Len(bench) <= 0 THEN <<NoneHost, NoneLatency>>
    ELSE LET sorted_servers == SortedByValue(bench, "num")
             item == sorted_servers[FixPriority(Len(bench), prio) + 1]
         IN  <<item.key, item.val>>

\* lines 437-460 as a function of the list: the dict benchmark after the
\* loop went over the hosts of the list in a network where no connect is
\* refused
RECURSIVE BenchmarkOf(_, _)
BenchmarkOf(list, network) ==
    IF list = <<>> THEN <<>>
    ELSE LET before == BenchmarkOf(SubSeq(list, 1, Len(list) - 1), network)
             server == list[Len(list)]
         IN  IF network[server].kind = "ok"
             THEN DictSet(before, server, network[server].lat)
             ELSE before

\* lines 414-471 as a function of its arguments and the network: the call
\* is left by the exception of the first refused connect, else it returns
\* the item picked from the sorted benchmark
SelectMirrorOn(list, prio, network) ==
    IF \E i \in 1..Len(list) : network[list[i]].kind = "refused"
    THEN [raised |-> TRUE, result |-> <<NoneHost, NoneLatency>>]
    ELSE [raised |-> FALSE,
          result |-> SelectMirrorResult(BenchmarkOf(list, network), prio)]

SelectMirrorReturn ==
    /\ sm_pc = "loop"
    /\ idx > Len(server_list)
    /\ sm_result' = SelectMirrorResult(benchmark, priority)
    /\ sm_pc' = "returned"
    /\ UNCHANGED <<server_list, priority, idx, benchmark, openSocks, net>>
    /\ UNCHANGED notMirror

SelectMirrorStep ==
    \/ ProbeConnected
    \/ ProbeHerror
    \/ ProbeGaierror
    \/ ProbeTimeout
    \/ ProbeRefused
    \/ SelectMirrorReturn

\* one call of select_mirror on any list of at most MaxServers hosts and any
\* rank, in any network
InitMirror ==
    /\ server_list \in SeqsUpTo(Range(GNU_MIRRORS), MaxServers)
    /\ priority \in -1..MaxPriority
    /\ idx = 1
    /\ benchmark = <<>>
    /\ sm_pc = "loop"
    /\ sm_result = <<NoneHost, NoneLatency>>
    /\ openSocks = 0
    /\ net \in [Hosts -> ConnectOutcomes]
    /\ \A h \in Hosts \ Range(server_list) : net[h].kind = "timeout"
    /\ ModuleOff
    /\ SelOff
    /\ FetchOff
    /\ UntarOff
    /\ MainOff
    /\ EnvOff

NextMirror == SelectMirrorStep

SpecMirror == InitMirror /\ [][NextMirror]_vars

----------------------------------------------------------------------------
(* Module level, lines 2047-2061, and ftp_get_by_component, lines 474-480 *)

\* lines 65-66, the values the globals have when FTP_SERVERS is built
DefaultGnuServer == "ftp.yzu.edu.tw"
DefaultGccServer == "gcc.gnu.org"

\* line 90
FTP_DOWNLOADS == <<"binutils", "gcc", "gmp", "mpfr", "mpc", "isl", "cloog">>

\* lines 92-100: the dict literal is evaluated once, when the module is
\* loaded; it holds the strings GNU_SERVER and GCC_SERVER were bound to then
FTP_SERVERS ==
    [c \in Range(FTP_DOWNLOADS) |->
        IF c = "binutils" THEN DefaultGnuServer ELSE DefaultGccServer]

\* the mirror group a component is served by (lines 92-100 name it)
MirrorGroup(c) == IF c = "binutils" THEN "gnu" ELSE "gcc"

\* lines 2048-2056: "if mirror: GNU_SERVER = mirror", then the GCC probe
\* select_mirror(GCC_MIRRORS) is started with the default priority 1
AfterGnuProbe ==
    /\ mod_pc = "gnu"
    /\ sm_pc = "returned"
    /\ mirrorGnu' = sm_result[1]
    /\ GNU_SERVER' = IF sm_result[1] # NoneHost THEN sm_result[1]
                                                ELSE GNU_SERVER
    /\ mod_pc' = "gcc"
    /\ server_list' = GCC_MIRRORS
    /\ priority' = 1
    /\ idx' = 1
    /\ benchmark' = <<>>
    /\ sm_pc' = "loop"
    /\ UNCHANGED <<sm_result, openSocks, net, GCC_SERVER, mirrorGcc,
                   connected>>
    /\ UNCHANGED <<selVars, fetchVars, untarVars, mainVars,
                   envVars>>

\* lines 2056-2066: "if mirror: GCC_SERVER = mirror", then main() is entered
AfterGccProbe ==
    /\ mod_pc = "gcc"
    /\ sm_pc = "returned"
    /\ mirrorGcc' = sm_result[1]
    /\ GCC_SERVER' = IF sm_result[1] # NoneHost THEN sm_result[1]
                                                ELSE GCC_SERVER
    /\ mod_pc' = "main"
    /\ sm_pc' = "idle"
    /\ UNCHANGED <<server_list, priority, idx, benchmark, sm_result,
                   openSocks, net, GNU_SERVER, mirrorGnu, connected>>
    /\ UNCHANGED <<selVars, fetchVars, untarVars, mainVars,
                   envVars>>

\* lines 1853 and 474-476: the pool takes the components in the order of
\* FTP_DOWNLOADS (chunksize 1); ftp_get is given FTP_SERVERS[component]
FtpGetByComponentServer ==
    /\ mod_pc = "main"
    /\ Len(connected) < Len(FTP_DOWNLOADS)
    /\ connected' = Append(connected,
                           FTP_SERVERS[FTP_DOWNLOADS[Len(connected) + 1]])
    /\ UNCHANGED <<mirrorVars, mod_pc, GNU_SERVER, GCC_SERVER, mirrorGnu,
                   mirrorGcc>>
    /\ UNCHANGED <<selVars, fetchVars, untarVars, mainVars,
                   envVars>>

\* the module as it is run: select_mirror(GNU_MIRRORS, 1) is in progress
InitStartup ==
    /\ server_list = GNU_MIRRORS
    /\ priority = 1
    /\ idx = 1
    /\ benchmark = <<>>
    /\ sm_pc = "loop"
    /\ sm_result = <<NoneHost, NoneLatency>>
    /\ openSocks = 0
    /\ net \in [Hosts -> ConnectOutcomes]
    /\ mod_pc = "gnu"
    /\ GNU_SERVER = DefaultGnuServer
    /\ GCC_SERVER = DefaultGccServer
    /\ mirrorGnu = NoneHost
    /\ mirrorGcc = NoneHost
    /\ connected = <<>>
    /\ SelOff
    /\ FetchOff
    /\ UntarOff
    /\ MainOff
    /\ EnvOff

NextStartup ==
    \/ SelectMirrorStep
    \/ AfterGnuProbe
    \/ AfterGccProbe
    \/ FtpGetByComponentServer

SpecStartup == InitStartup /\ [][NextStartup]_vars

----------------------------------------------------------------------------
(* Argument parsing, lines 2029-2045, and main, lines 1828-2023 *)

\* line 112
HTML_DOWNLOADS == <<"mingw64">>

\* lines 181-190 with the paths of gcc and mpc the same
SAVE_PATH_GccMpcShared ==
    [c \in {"gcc", "binutils", "gmp", "mpfr", "mpc", "isl", "cloog",
            "mingw64"} |->
        CASE c = "gcc" -> "./dl/gcc.tar.gz"
          [] c = "binutils" -> "./dl/binutils.tar.bz2"
          [] c = "gmp" -> "./dl/gmp.tar.bz2"
          [] c = "mpfr" -> "./dl/mpfr.tar.bz2"
          [] c = "mpc" -> "./dl/gcc.tar.gz"
          [] c = "isl" -> "./dl/isl.tar.bz2"
          [] c = "cloog" -> "./dl/cloog.tar.gz"
          [] c = "mingw64" -> "./dl/mingw64.tar.gz"]

\* lines 181-190
SAVE_PATH ==
    [c \in {"gcc", "binutils", "gmp", "mpfr", "mpc", "isl", "cloog",
            "mingw64"} |->
        CASE c = "gcc" -> "./dl/gcc.tar.gz"
          [] c = "binutils" -> "./dl/binutils.tar.bz2"
          [] c = "gmp" -> "./dl/gmp.tar.bz2"
          [] c = "mpfr" -> "./dl/mpfr.tar.bz2"
          [] c = "mpc" -> "./dl/mpc.tar.gz"
          [] c = "isl" -> "./dl/isl.tar.bz2"
          [] c = "cloog" -> "./dl/cloog.tar.gz"
          [] c = "mingw64" -> "./dl/mingw64.tar.gz"]

\* a file under the work folder: the path of an archive, or that path with
\* the suffix ".md5" (source_md5_file = source_archive + ".md5", line 594)
ArchiveFile(path) == [path |-> path, suffix |-> ""]
SourceMd5File(path) == [path |-> path, suffix |-> ".md5"]

\* lines 474-487: the files a task writes in its present step; the fetch is
\* given SAVE_PATH[component] and writes the archive there (lines 387-411,
\* 551-562), untar is given the same path and writes the sidecar next to
\* it (lines 594-625)
TaskWrites(c) ==
    CASE task[c].status = "fetch" -> {ArchiveFile(SAVE_PATH[c])}
      [] task[c].status = "untar" -> {SourceMd5File(SAVE_PATH[c])}
      [] OTHER -> {}

\* the files the fetch/extract pair of a component writes
PairWrites(c) == {ArchiveFile(SAVE_PATH[c]), SourceMd5File(SAVE_PATH[c])}

\* line 1864
all_components ==
    <<"binutils", "gcc", "gmp", "mpfr", "mpc", "isl", "cloog", "mingw-w64">>

\* the parsed arguments of a run: no version flag given (each is the
\* default "99", lines 2032-2034), the three flags given with three
\* different versions, and --mingw alone
CliArgs ==
    {[gcc |-> V_99, binutils |-> V_99, mingw |-> V_99],
     [gcc |-> V_8_3_0, binutils |-> V_7_1_0, mingw |-> V_10_0_1],
     [gcc |-> V_99, binutils |-> V_99, mingw |-> V_7_1_0]}

\* lines 160-179 as the module is loaded
DefaultPreferredFolderVersion == [c \in Range(FTP_DOWNLOADS) |-> V_99]
DefaultPreferredFileVersion ==
    [c \in Range(FTP_DOWNLOADS) \cup Range(HTML_DOWNLOADS) |-> V_99]

\* the default of the parameter preferred_version of html_get (line 490)
HtmlGetDefaultPreferred == V_99

\* thread_pool = mp.Pool(processes=2), line 1852
Workers == 1..2

\* a task of pool.map: not yet taken, in its fetch, in its untar, returned,
\* or ended by an exception; with the preferred versions its fetch was given
QueuedTask == [status |-> "queued", preferred_version |-> <<>>,
               preferred_folder_version |-> <<>>]

\* the entry of pkg_dir the archive of a component unpacks to, named by the
\* component name of all_components that is part of the entry's name
TreeOf(c) == IF c = "mingw64" THEN "mingw-w64" ELSE c

\* "component in entry.name", line 1870
NameContains(entry, component) == entry = component

\* lines 1863-1871: the dict component -> path of the entry
ScanPkgDir(entries) ==
    [c \in {k \in Range(all_components) :
               \E e \in entries : NameContains(e, k)}
        |-> CHOOSE e \in entries : NameContains(e, c)]

\* what a build step returns: None, or a prefix (a path under pkg_dir or
\* the build folder) named here by its component and machine
NoPrefix == [component |-> "", machine |-> ""]
PrefixOf(c) == [component |-> c, machine |-> "x86_64"]

\* main's locals gmp_prefix, mpfr_prefix, isl_prefix, cloog_prefix,
\* mpc_prefix, path32, path64 before they are assigned
NoPrefixes ==
    [gmp |-> NoPrefix, mpfr |-> NoPrefix, isl |-> NoPrefix,
     cloog |-> NoPrefix, mpc |-> NoPrefix, path32 |-> NoPrefix,
     path64 |-> NoPrefix]

\* the build steps in the order main calls them
BuildSteps ==
    <<"build_binutils", "build_mingw_header", "build_gmp", "build_mpfr",
      "build_isl", "build_cloog", "build_mpc", "build_gcc1", "build_crt",
      "build_winpthreads", "build_gcc2">>

\* the step main goes to after a step, with build_gcc2 called right after
\* build_gcc1, before the CRT and winpthreads
StepAfterGcc2Early(step) ==
    LET order == <<"build_binutils", "build_mingw_header", "build_gmp",
                   "build_mpfr", "build_isl", "build_cloog", "build_mpc",
                   "build_gcc1", "build_gcc2", "build_crt",
                   "build_winpthreads">>
        i == CHOOSE k \in 1..Len(order) : order[k] = step
    IN  IF i < Len(order) THEN order[i + 1] ELSE "documentation"

\* the step main goes to after a step that succeeded
StepAfter(step) ==
    LET i == CHOOSE k \in 1..Len(BuildSteps) : BuildSteps[k] = step
    IN  IF i < Len(BuildSteps) THEN BuildSteps[i + 1] ELSE "documentation"

\* the key of source_folders a step is given the value of ("" for
\* build_gcc2, which is given the build folders of build_gcc1)
StepSource(step) ==
    CASE step = "build_binutils" -> "binutils"
      [] step = "build_mingw_header" -> "mingw-w64"
      [] step = "build_gmp" -> "gmp"
      [] step = "build_mpfr" -> "mpfr"
      [] step = "build_isl" -> "isl"
      [] step = "build_cloog" -> "cloog"
      [] step = "build_mpc" -> "mpc"
      [] step = "build_gcc1" -> "gcc"
      [] step = "build_crt" -> "mingw-w64"
      [] step = "build_winpthreads" -> "mingw-w64"
      [] OTHER -> ""

\* the prefixes given to a step, build_mpc given gmp_prefix twice
StepPrefixesGmpTwice(step, p) ==
    CASE step \in {"build_mpfr", "build_isl", "build_cloog"} -> <<p.gmp>>
      [] step = "build_mpc" -> <<p.gmp, p.gmp>>
      [] step = "build_gcc1" -> <<p.gmp, p.mpfr, p.isl, p.mpc>>
      [] step = "build_gcc2" -> <<p.path32, p.path64>>
      [] OTHER -> <<>>

\* the prefixes given to a step, from main's locals
StepPrefixes(step, p) ==
    CASE step \in {"build_mpfr", "build_isl", "build_cloog"} -> <<p.gmp>>
      [] step = "build_mpc" -> <<p.gmp, p.mpfr>>
      [] step = "build_gcc1" -> <<p.gmp, p.mpfr, p.isl, p.mpc>>
      [] step = "build_gcc2" -> <<p.path32, p.path64>>
      [] OTHER -> <<>>

\* what a step returns when it succeeds: True (no value kept), a prefix,
\* or the two build folders of build_gcc1
SuccessValue(step) ==
    CASE step = "build_gmp" -> <<PrefixOf("gmp")>>
      [] step = "build_mpfr" -> <<PrefixOf("mpfr")>>
      [] step = "build_isl" -> <<PrefixOf("isl")>>
      [] step = "build_cloog" -> <<PrefixOf("cloog")>>
      [] step = "build_mpc" -> <<PrefixOf("mpc")>>
      [] step = "build_gcc1" -> <<[component |-> "gcc", machine |-> "i686"],
                                 [component |-> "gcc", machine |-> "x86_64"]>>
      [] OTHER -> <<>>

\* and when it fails: None, or (None, None) from build_gcc1
FailureValue(step) ==
    CASE step \in {"build_gmp", "build_mpfr", "build_isl", "build_cloog",
                   "build_mpc"} -> <<NoPrefix>>
      [] step = "build_gcc1" -> <<NoPrefix, NoPrefix>>
      [] OTHER -> <<>>

\* a call of a build step ends with success, with a reported failure, or
\* with an exception that leaves the step
BuildOutcomes(step) ==
    {[ok |-> TRUE, raised |-> FALSE, value |-> SuccessValue(step)],
     [ok |-> FALSE, raised |-> FALSE, value |-> FailureValue(step)],
     [ok |-> FALSE, raised |-> TRUE, value |-> <<>>]}

\* main's locals after the assignment of what the step returned
StepAssign(step, p, value) ==
    CASE step = "build_gmp" -> [p EXCEPT !.gmp = value[1]]
      [] step = "build_mpfr" -> [p EXCEPT !.mpfr = value[1]]
      [] step = "build_isl" -> [p EXCEPT !.isl = value[1]]
      [] step = "build_cloog" -> [p EXCEPT !.cloog = value[1]]
      [] step = "build_mpc" -> [p EXCEPT !.mpc = value[1]]
      [] step = "build_gcc1" -> [p EXCEPT !.path32 = value[1],
                                          !.path64 = value[2]]
      [] OTHER -> p

\* where main goes after a step, going on whatever the step returned
MainAfterBuildGoesOn(ok, next) == next

\* "if not state: return False", else on to the next step
MainAfterBuild(ok, next) == IF ok THEN next ELSE "returned"

\* one build step of main: the lookup of the source folder, the call, the
\* test of what it returned
BuildCall(step, out) ==
    LET key == StepSource(step)
    IN  IF key # "" /\ key \notin DOMAIN source_folders
        THEN \* source_folders[key] raises KeyError, main is left
             [builds |-> builds, prefix |-> prefix, pc |-> "raised",
              ret |-> "KeyError", exit |-> 1]
        ELSE
        LET rec == [step |-> step,
                    source |-> IF key = "" THEN "" ELSE source_folders[key],
                    prefixes |-> StepPrefixes(step, prefix),
                    ok |-> out.ok, raised |-> out.raised,
                    value |-> out.value]
            pc == IF out.raised THEN "raised"
                  ELSE MainAfterBuild(out.ok, StepAfter(step))
        IN  [builds |-> Append(builds, rec),
             prefix |-> IF out.raised THEN prefix
                        ELSE StepAssign(step, prefix, out.value),
             pc |-> pc,
             ret |-> IF out.raised THEN "exception"
                     ELSE IF pc = "returned" THEN "False" ELSE main_ret,
             exit |-> IF out.raised THEN 1 ELSE exit_status]

\* lines 2037-2041: the dicts are updated from the parsed arguments
ParseArgs ==
    /\ main_pc = "parse"
    /\ PREFERRED_FOLDER_VERSION' =
           [PREFERRED_FOLDER_VERSION EXCEPT !["gcc"] = cli.gcc,
                                            !["binutils"] = cli.binutils]
    /\ PREFERRED_FILE_VERSION' =
           [PREFERRED_FILE_VERSION EXCEPT !["gcc"] = cli.gcc,
                                          !["binutils"] = cli.binutils,
                                          !["mingw64"] = cli.mingw]
    /\ main_pc' = "main"
    /\ UNCHANGED <<cli, task, worker, pkg_dir, source_folders, builds,
                   prefix, main_ret, documented, exit_status>>
    /\ UNCHANGED notMain

\* lines 1832-1853: the folders are made, the pool is created and
\* pool.map(ftp_get_by_component, FTP_DOWNLOADS) is called
MainStartsPool ==
    /\ main_pc = "main"
    /\ main_pc' = "ftp_map"
    /\ UNCHANGED <<cli, PREFERRED_FILE_VERSION, PREFERRED_FOLDER_VERSION,
                   task, worker, pkg_dir, source_folders, builds, prefix,
                   main_ret, documented, exit_status>>
    /\ UNCHANGED notMain

\* the first task of a map that no worker has taken yet (chunksize is 1,
\* the tasks are handed out in the order of the list)
NextQueued(downloads) ==
    LET queued == {i \in 1..Len(downloads) :
                      task[downloads[i]].status = "queued"}
    IN  IF queued = {} THEN 0
        ELSE CHOOSE i \in queued : \A j \in queued : i <= j

\* lines 474-479: an idle worker takes the next component and calls ftp_get
\* with the preferred versions of the component
FtpTaskStart ==
    /\ main_pc = "ftp_map"
    /\ NextQueued(FTP_DOWNLOADS) # 0
    /\ \E w \in Workers :
         /\ worker[w] = "idle"
         /\ LET c == FTP_DOWNLOADS[NextQueued(FTP_DOWNLOADS)]
            IN  /\ worker' = [worker EXCEPT ![w] = c]
                /\ task' = [task EXCEPT ![c] =
                      [status |-> "fetch",
                       preferred_version |-> PREFERRED_FILE_VERSION[c],
                       preferred_folder_version |->
                           PREFERRED_FOLDER_VERSION[c]]]
    /\ UNCHANGED <<cli, PREFERRED_FILE_VERSION, PREFERRED_FOLDER_VERSION,
                   main_pc, pkg_dir, source_folders, builds, prefix,
                   main_ret, documented, exit_status>>
    /\ UNCHANGED notMain

\* lines 483-486: an idle worker takes the component and calls html_get
\* without the argument preferred_version
HtmlTaskStart ==
    /\ main_pc = "html_map"
    /\ NextQueued(HTML_DOWNLOADS) # 0
    /\ \E w \in Workers :
         /\ worker[w] = "idle"
         /\ LET c == HTML_DOWNLOADS[NextQueued(HTML_DOWNLOADS)]
            IN  /\ worker' = [worker EXCEPT ![w] = c]
                /\ task' = [task EXCEPT ![c] =
                      [status |-> "fetch",
                       preferred_version |-> HtmlGetDefaultPreferred,
                       preferred_folder_version |-> <<>>]]
    /\ UNCHANGED <<cli, PREFERRED_FILE_VERSION, PREFERRED_FOLDER_VERSION,
                   main_pc, pkg_dir, source_folders, builds, prefix,
                   main_ret, documented, exit_status>>
    /\ UNCHANGED notMain

\* lines 479-480 and 486-487: the fetch returned (what it returned is
\* dropped) and untar is called
FetchReturns ==
    /\ \E w \in Workers :
         /\ worker[w] # "idle"
         /\ task[worker[w]].status = "fetch"
         /\ task' = [task EXCEPT ![worker[w]].status = "untar"]
    /\ UNCHANGED <<cli, PREFERRED_FILE_VERSION, PREFERRED_FOLDER_VERSION,
                   main_pc, worker, pkg_dir, source_folders, builds, prefix,
                   main_ret, documented, exit_status>>
    /\ UNCHANGED notMain

\* the fetch raised: the task ends with the exception, untar is not called
FetchRaises ==
    /\ \E w \in Workers :
         /\ worker[w] # "idle"
         /\ task[worker[w]].status = "fetch"
         /\ task' = [task EXCEPT ![worker[w]].status = "raised"]
         /\ worker' = [worker EXCEPT ![w] = "idle"]
    /\ UNCHANGED <<cli, PREFERRED_FILE_VERSION, PREFERRED_FOLDER_VERSION,
                   main_pc, pkg_dir, source_folders, builds, prefix,
                   main_ret, documented, exit_status>>
    /\ UNCHANGED notMain

\* untar returned: the source tree is in pkg_dir, or it is not (the archive
\* is missing, or the extraction stopped before the tree was made)
UntarReturns ==
    /\ \E w \in Workers :
         /\ worker[w] # "idle"
         /\ task[worker[w]].status = "untar"
         /\ task' = [task EXCEPT ![worker[w]].status = "done"]
         /\ worker' = [worker EXCEPT ![w] = "idle"]
         /\ \E tree \in BOOLEAN :
              pkg_dir' = IF tree THEN pkg_dir \cup {TreeOf(worker[w])}
                                 ELSE pkg_dir
    /\ UNCHANGED <<cli, PREFERRED_FILE_VERSION, PREFERRED_FOLDER_VERSION,
                   main_pc, source_folders, builds, prefix, main_ret,
                   documented, exit_status>>
    /\ UNCHANGED notMain

\* untar raised (the archive could not be opened as a tarball)
UntarRaises ==
    /\ \E w \in Workers :
         /\ worker[w] # "idle"
         /\ task[worker[w]].status = "untar"
         /\ task' = [task EXCEPT ![worker[w]].status = "raised"]
         /\ worker' = [worker EXCEPT ![w] = "idle"]
    /\ UNCHANGED <<cli, PREFERRED_FILE_VERSION, PREFERRED_FOLDER_VERSION,
                   main_pc, pkg_dir, source_folders, builds, prefix,
                   main_ret, documented, exit_status>>
    /\ UNCHANGED notMain

\* every task of the map has been taken by a worker
MapOverOnceTaken(downloads) ==
    \A i \in 1..Len(downloads) : task[downloads[i]].status # "queued"

\* every task of the map has ended
MapOver(downloads) ==
    \A i \in 1..Len(downloads) :
        task[downloads[i]].status \in {"done", "raised"}

\* a task of the map ended with an exception
MapFailed(downloads) ==
    \E i \in 1..Len(downloads) : task[downloads[i]].status = "raised"

\* line 1853: pool.map returns once every task has returned
FtpMapReturns ==
    /\ main_pc = "ftp_map"
    /\ MapOver(FTP_DOWNLOADS) /\ ~MapFailed(FTP_DOWNLOADS)
    /\ main_pc' = "html_map"
    /\ UNCHANGED <<cli, PREFERRED_FILE_VERSION, PREFERRED_FOLDER_VERSION,
                   task, worker, pkg_dir, source_folders, builds, prefix,
                   main_ret, documented, exit_status>>
    /\ UNCHANGED notMain

\* line 1853: pool.map raises the exception of a task once every task has
\* ended; nothing in main catches it
FtpMapRaises ==
    /\ main_pc = "ftp_map"
    /\ MapOver(FTP_DOWNLOADS) /\ MapFailed(FTP_DOWNLOADS)
    /\ main_pc' = "raised"
    /\ main_ret' = "exception"
    /\ exit_status' = 1
    /\ UNCHANGED <<cli, PREFERRED_FILE_VERSION, PREFERRED_FOLDER_VERSION,
                   task, worker, pkg_dir, source_folders, builds, prefix,
                   documented>>
    /\ UNCHANGED notMain

\* lines 1857-1859: the map over HTML_DOWNLOADS returns, the pool is closed
\* and joined
HtmlMapReturns ==
    /\ main_pc = "html_map"
    /\ MapOver(HTML_DOWNLOADS) /\ ~MapFailed(HTML_DOWNLOADS)
    /\ main_pc' = "scan"
    /\ UNCHANGED <<cli, PREFERRED_FILE_VERSION, PREFERRED_FOLDER_VERSION,
                   task, worker, pkg_dir, source_folders, builds, prefix,
                   main_ret, documented, exit_status>>
    /\ UNCHANGED notMain

\* line 1857: the map over HTML_DOWNLOADS raises the exception of its task
HtmlMapRaises ==
    /\ main_pc = "html_map"
    /\ MapOver(HTML_DOWNLOADS) /\ MapFailed(HTML_DOWNLOADS)
    /\ main_pc' = "raised"
    /\ main_ret' = "exception"
    /\ exit_status' = 1
    /\ UNCHANGED <<cli, PREFERRED_FILE_VERSION, PREFERRED_FOLDER_VERSION,
                   task, worker, pkg_dir, source_folders, builds, prefix,
                   documented>>
    /\ UNCHANGED notMain

\* lines 1863-1872: source_folders is filled from the entries of pkg_dir
ScanSourceFolders ==
    /\ main_pc = "scan"
    /\ source_folders' = ScanPkgDir(pkg_dir)
    /\ main_pc' = BuildSteps[1]
    /\ UNCHANGED <<cli, PREFERRED_FILE_VERSION, PREFERRED_FOLDER_VERSION,
                   task, worker, pkg_dir, builds, prefix, main_ret,
                   documented, exit_status>>
    /\ UNCHANGED notMain

\* lines 1876-1887
BuildBinutils ==
    /\ main_pc = "build_binutils"
    /\ \E out \in BuildOutcomes("build_binutils") :
         LET m == BuildCall("build_binutils", out)
         IN  /\ builds' = m.builds
             /\ prefix' = m.prefix
             /\ main_pc' = m.pc
             /\ main_ret' = m.ret
             /\ exit_status' = m.exit
    /\ UNCHANGED <<cli, PREFERRED_FILE_VERSION, PREFERRED_FOLDER_VERSION,
                   task, worker, pkg_dir, source_folders, documented>>
    /\ UNCHANGED notMain

\* lines 1889-1900
BuildMingwHeader ==
    /\ main_pc = "build_mingw_header"
    /\ \E out \in BuildOutcomes("build_mingw_header") :
         LET m == BuildCall("build_mingw_header", out)
         IN  /\ builds' = m.builds
             /\ prefix' = m.prefix
             /\ main_pc' = m.pc
             /\ main_ret' = m.ret
             /\ exit_status' = m.exit
    /\ UNCHANGED <<cli, PREFERRED_FILE_VERSION, PREFERRED_FOLDER_VERSION,
                   task, worker, pkg_dir, source_folders, documented>>
    /\ UNCHANGED notMain

\* lines 1902-1913
BuildGmp ==
    /\ main_pc = "build_gmp"
    /\ \E out \in BuildOutcomes("build_gmp") :
         LET m == BuildCall("build_gmp", out)
         IN  /\ builds' = m.builds
             /\ prefix' = m.prefix
             /\ main_pc' = m.pc
             /\ main_ret' = m.ret
             /\ exit_status' = m.exit
    /\ UNCHANGED <<cli, PREFERRED_FILE_VERSION, PREFERRED_FOLDER_VERSION,
                   task, worker, pkg_dir, source_folders, documented>>
    /\ UNCHANGED notMain

\* lines 1915-1926
BuildMpfr ==
    /\ main_pc = "build_mpfr"
    /\ \E out \in BuildOutcomes("build_mpfr") :
         LET m == BuildCall("build_mpfr", out)
         IN  /\ builds' = m.builds
             /\ prefix' = m.prefix
             /\ main_pc' = m.pc
             /\ main_ret' = m.ret
             /\ exit_status' = m.exit
    /\ UNCHANGED <<cli, PREFERRED_FILE_VERSION, PREFERRED_FOLDER_VERSION,
                   task, worker, pkg_dir, source_folders, documented>>
    /\ UNCHANGED notMain

\* lines 1928-1939
BuildIsl ==
    /\ main_pc = "build_isl"
    /\ \E out \in BuildOutcomes("build_isl") :
         LET m == BuildCall("build_isl", out)
         IN  /\ builds' = m.builds
             /\ prefix' = m.prefix
             /\ main_pc' = m.pc
             /\ main_ret' = m.ret
             /\ exit_status' = m.exit
    /\ UNCHANGED <<cli, PREFERRED_FILE_VERSION, PREFERRED_FOLDER_VERSION,
                   task, worker, pkg_dir, source_folders, documented>>
    /\ UNCHANGED notMain

\* lines 1941-1952
BuildCloog ==
    /\ main_pc = "build_cloog"
    /\ \E out \in BuildOutcomes("build_cloog") :
         LET m == BuildCall("build_cloog", out)
         IN  /\ builds' = m.builds
             /\ prefix' = m.prefix
             /\ main_pc' = m.pc
             /\ main_ret' = m.ret
             /\ exit_status' = m.exit
    /\ UNCHANGED <<cli, PREFERRED_FILE_VERSION, PREFERRED_FOLDER_VERSION,
                   task, worker, pkg_dir, source_folders, documented>>
    /\ UNCHANGED notMain

\* lines 1954-1966
BuildMpc ==
    /\ main_pc = "build_mpc"
    /\ \E out \in BuildOutcomes("build_mpc") :
         LET m == BuildCall("build_mpc", out)
         IN  /\ builds' = m.builds
             /\ prefix' = m.prefix
             /\ main_pc' = m.pc
             /\ main_ret' = m.ret
             /\ exit_status' = m.exit
    /\ UNCHANGED <<cli, PREFERRED_FILE_VERSION, PREFERRED_FOLDER_VERSION,
                   task, worker, pkg_dir, source_folders, documented>>
    /\ UNCHANGED notMain

\* lines 1968-1980
BuildGcc1 ==
    /\ main_pc = "build_gcc1"
    /\ \E out \in BuildOutcomes("build_gcc1") :
         LET m == BuildCall("build_gcc1", out)
         IN  /\ builds' = m.builds
             /\ prefix' = m.prefix
             /\ main_pc' = m.pc
             /\ main_ret' = m.ret
             /\ exit_status' = m.exit
    /\ UNCHANGED <<cli, PREFERRED_FILE_VERSION, PREFERRED_FOLDER_VERSION,
                   task, worker, pkg_dir, source_folders, documented>>
    /\ UNCHANGED notMain

\* lines 1982-1993
BuildCrt ==
    /\ main_pc = "build_crt"
    /\ \E out \in BuildOutcomes("build_crt") :
         LET m == BuildCall("build_crt", out)
         IN  /\ builds' = m.builds
             /\ prefix' = m.prefix
             /\ main_pc' = m.pc
             /\ main_ret' = m.ret
             /\ exit_status' = m.exit
    /\ UNCHANGED <<cli, PREFERRED_FILE_VERSION, PREFERRED_FOLDER_VERSION,
                   task, worker, pkg_dir, source_folders, documented>>
    /\ UNCHANGED notMain

\* lines 1995-2006
BuildWinpthreads ==
    /\ main_pc = "build_winpthreads"
    /\ \E out \in BuildOutcomes("build_winpthreads") :
         LET m == BuildCall("build_winpthreads", out)
         IN  /\ builds' = m.builds
             /\ prefix' = m.prefix
             /\ main_pc' = m.pc
             /\ main_ret' = m.ret
             /\ exit_status' = m.exit
    /\ UNCHANGED <<cli, PREFERRED_FILE_VERSION, PREFERRED_FOLDER_VERSION,
                   task, worker, pkg_dir, source_folders, documented>>
    /\ UNCHANGED notMain

\* lines 2008-2019
BuildGcc2 ==
    /\ main_pc = "build_gcc2"
    /\ \E out \in BuildOutcomes("build_gcc2") :
         LET m == BuildCall("build_gcc2", out)
         IN  /\ builds' = m.builds
             /\ prefix' = m.prefix
             /\ main_pc' = m.pc
             /\ main_ret' = m.ret
             /\ exit_status' = m.exit
    /\ UNCHANGED <<cli, PREFERRED_FILE_VERSION, PREFERRED_FOLDER_VERSION,
                   task, worker, pkg_dir, source_folders, documented>>
    /\ UNCHANGED notMain

\* lines 2021-2023: generate_documentation(), return True
GenerateDocumentation ==
    /\ main_pc = "documentation"
    /\ documented' = TRUE
    /\ main_ret' = "True"
    /\ main_pc' = "returned"
    /\ UNCHANGED <<cli, PREFERRED_FILE_VERSION, PREFERRED_FOLDER_VERSION,
                   task, worker, pkg_dir, source_folders, builds, prefix,
                   exit_status>>
    /\ UNCHANGED notMain

\* lines 2066-2073: sys.exit(1) when main returned False, else the end of
\* the script
ExitAfterMain ==
    /\ main_pc = "returned"
    /\ exit_status' = IF main_ret = "True" THEN 0 ELSE 1
    /\ main_pc' = "exited"
    /\ UNCHANGED <<cli, PREFERRED_FILE_VERSION, PREFERRED_FOLDER_VERSION,
                   task, worker, pkg_dir, source_folders, builds, prefix,
                   main_ret, documented>>
    /\ UNCHANGED notMain

\* the script started with its arguments parsed, in a fresh work folder
InitMain ==
    /\ cli \in CliArgs
    /\ PREFERRED_FILE_VERSION = DefaultPreferredFileVersion
    /\ PREFERRED_FOLDER_VERSION = DefaultPreferredFolderVersion
    /\ main_pc = "parse"
    /\ task = [c \in Range(FTP_DOWNLOADS) \cup Range(HTML_DOWNLOADS)
                  |-> QueuedTask]
    /\ worker = [w \in Workers |-> "idle"]
    /\ pkg_dir = {}
    /\ source_folders = <<>>
    /\ builds = <<>>
    /\ prefix = NoPrefixes
    /\ main_ret = "running"
    /\ documented = FALSE
    /\ exit_status = -1
    /\ MirrorOff
    /\ ModuleOff
    /\ SelOff
    /\ FetchOff
    /\ UntarOff
    /\ EnvOff

NextMain ==
    \/ ParseArgs
    \/ MainStartsPool
    \/ FtpTaskStart
    \/ HtmlTaskStart
    \/ FetchReturns
    \/ FetchRaises
    \/ UntarReturns
    \/ UntarRaises
    \/ FtpMapReturns
    \/ FtpMapRaises
    \/ HtmlMapReturns
    \/ HtmlMapRaises
    \/ ScanSourceFolders
    \/ BuildBinutils
    \/ BuildMingwHeader
    \/ BuildGmp
    \/ BuildMpfr
    \/ BuildIsl
    \/ BuildCloog
    \/ BuildMpc
    \/ BuildGcc1
    \/ BuildCrt
    \/ BuildWinpthreads
    \/ BuildGcc2
    \/ GenerateDocumentation
    \/ ExitAfterMain

SpecMain == InitMain /\ [][NextMain]_vars

----------------------------------------------------------------------------
(* set_env, restore_env and the environment in the build functions,        *)
(* lines 663-704, 829-1328, 1444-1552, 1636-1730                           *)

\* the number of calls in one run of the environment model
MaxEnvCalls == 2

\* os.path.join(os.path.abspath(LOCATIONS[...]), "bin") for a target
PrefixBin(target) ==
    IF target = "x86_64" THEN "/home/user/MWTC/mingw-w64-x86_64/bin"
    ELSE "/home/user/MWTC/mingw-w64-i686/bin"

\* bin + ":" + os.environ["PATH"]: a str is the sequence of its parts
PathWith(target, old_path_var) == <<PrefixBin(target), ":">> \o old_path_var

\* the cross compilers of lines 1475-1479 and 1658-1662
CrossCC(target) ==
    IF target = "x86_64" THEN "x86_64-w64-mingw32-gcc"
    ELSE "i686-w64-mingw32-gcc"

\* os.environ as the functions read and write it
Environ(path, cc) == [PATH |-> path, CC |-> cc]

\* lines 663-689: os.environ["CC"] raises KeyError when CC is not set, else
\* the old values are kept in the map returned, PATH gets the bin folder
\* of the prefix in front and CC becomes "gcc"
set_env(x86_64, env) ==
    IF ~env.CC.set
    THEN [raised |-> TRUE,
          origin |-> [old_path |-> <<>>, old_cc |-> ""],
          env |-> env]
    ELSE [raised |-> FALSE,
          origin |-> [old_path |-> env.PATH, old_cc |-> env.CC.val],
          env |-> Environ(PathWith(IF x86_64 THEN "x86_64" ELSE "i686",
                                   env.PATH),
                          EnvValue("gcc"))]

\* lines 692-704: "if old_cc:" and "if old_path:" write a value back only
\* when it is not the empty string
restore_env(old_env, env) ==
    Environ(IF old_env.old_path # <<>> THEN old_env.old_path ELSE env.PATH,
            IF old_env.old_cc # "" THEN EnvValue(old_env.old_cc)
                                   ELSE env.CC)

\* the ways a call of build_gmp, build_mpfr, build_isl, build_cloog or
\* build_mpc ends once set_env returned
LibraryOutcomes == {"configure_failed", "make_failed", "install_failed", "ok"}

\* lines 970-1018 (and the same lines of build_mpfr, build_isl,
\* build_cloog, build_mpc): set_env, then restore_env before each return
BuildLibraryEnv(x86_64, outcome, env) ==
    LET old_env == set_env(x86_64, env)
    IN  IF old_env.raised THEN [raised |-> TRUE, env |-> env]
        ELSE [raised |-> FALSE,
              env |-> restore_env(old_env.origin, old_env.env)]

\* the targets in the order the functions work on them
build_target == <<"i686", "x86_64">>

\* a call ends with "ok", or at a step for a target
StepOutcomes(steps) ==
    {[target |-> t, step |-> st] : t \in Range(build_target), st \in steps}
    \cup {[target |-> "", step |-> "ok"]}

\* lines 854-943: PATH is set for x86 at line 858 and for x86_64 at line
\* 899, and set back at line 941 only; the returns after a failed configure
\* or install come before it
BuildMingwHeaderEnv(outcome, env) ==
    LET old_path_var == env.PATH
    IN  IF outcome.step = "ok" THEN Environ(old_path_var, env.CC)
        ELSE Environ(PathWith(outcome.target, old_path_var), env.CC)

\* lines 1469-1552: os.environ["CC"] at line 1478 raises KeyError when CC is
\* not set; PATH and CC are set for the target at lines 1496-1497 and set
\* back at lines 1550-1551, at the end of the loop body; the returns after a
\* failed configure, make or install come before it
BuildCrtEnv(outcome, env) ==
    IF ~env.CC.set THEN [raised |-> TRUE, env |-> env]
    ELSE LET path_var == [t \in Range(build_target) |-> PathWith(t, env.PATH)]
             cc_var == [t \in Range(build_target) |-> EnvValue(CrossCC(t))]
         IN  [raised |-> FALSE,
              env |-> IF outcome.step = "ok" THEN Environ(env.PATH, env.CC)
                      ELSE Environ(path_var[outcome.target],
                                   cc_var[outcome.target])]

\* lines 1652-1730: as build_crt, with the return for a missing configure
\* script (line 1677) before PATH and CC are set for the target
BuildWinpthreadsEnv(outcome, env) ==
    IF ~env.CC.set THEN [raised |-> TRUE, env |-> env]
    ELSE LET path_var == [t \in Range(build_target) |-> PathWith(t, env.PATH)]
             cc_var == [t \in Range(build_target) |-> EnvValue(CrossCC(t))]
         IN  [raised |-> FALSE,
              env |-> IF outcome.step \in {"ok", "no_configure"}
                      THEN Environ(env.PATH, env.CC)
                      ELSE Environ(path_var[outcome.target],
                                   cc_var[outcome.target])]

\* the record of a call and the environment it leaves
EnvCallRecord(fn, target, outcome, raised, after) ==
    [fn |-> fn, target |-> target, outcome |-> outcome, raised |-> raised,
     path_before |-> PATH, cc_before |-> CC,
     path_after |-> after.PATH, cc_after |-> after.CC]

\* a call in the environment of the process ends
EnvCallEnds(fn, target, outcome, raised, after) ==
    /\ env_call' = EnvCallRecord(fn, target, outcome, raised, after)
    /\ PATH' = after.PATH
    /\ CC' = after.CC
    /\ env_calls' = env_calls + 1

\* restore_env(set_env(...)), for either target
SetEnvRestoreEnv ==
    /\ env_calls < MaxEnvCalls
    /\ \E x86_64 \in BOOLEAN :
         LET old_env == set_env(x86_64, Environ(PATH, CC))
         IN  EnvCallEnds("set_env; restore_env",
                         IF x86_64 THEN "x86_64" ELSE "i686", "ok",
                         old_env.raised,
                         IF old_env.raised THEN old_env.env
                         ELSE restore_env(old_env.origin, old_env.env))
    /\ UNCHANGED <<mirrorVars, moduleVars, selVars, fetchVars, untarVars,
                   mainVars>>

\* a call of build_gmp (lines 946-1018)
CallBuildGmp ==
    /\ env_calls < MaxEnvCalls
    /\ \E x86_64 \in BOOLEAN, outcome \in LibraryOutcomes :
         LET r == BuildLibraryEnv(x86_64, outcome, Environ(PATH, CC))
         IN  EnvCallEnds("build_gmp", IF x86_64 THEN "x86_64" ELSE "i686",
                         outcome, r.raised, r.env)
    /\ UNCHANGED <<mirrorVars, moduleVars, selVars, fetchVars, untarVars,
                   mainVars>>

\* a call of build_mpfr (lines 1021-1095)
CallBuildMpfr ==
    /\ env_calls < MaxEnvCalls
    /\ \E x86_64 \in BOOLEAN, outcome \in LibraryOutcomes :
         LET r == BuildLibraryEnv(x86_64, outcome, Environ(PATH, CC))
         IN  EnvCallEnds("build_mpfr", IF x86_64 THEN "x86_64" ELSE "i686",
                         outcome, r.raised, r.env)
    /\ UNCHANGED <<mirrorVars, moduleVars, selVars, fetchVars, untarVars,
                   mainVars>>

\* a call of build_isl (lines 1098-1172)
CallBuildIsl ==
    /\ env_calls < MaxEnvCalls
    /\ \E x86_64 \in BOOLEAN, outcome \in LibraryOutcomes :
         LET r == BuildLibraryEnv(x86_64, outcome, Environ(PATH, CC))
         IN  EnvCallEnds("build_isl", IF x86_64 THEN "x86_64" ELSE "i686",
                         outcome, r.raised, r.env)
    /\ UNCHANGED <<mirrorVars, moduleVars, selVars, fetchVars, untarVars,
                   mainVars>>

\* a call of build_cloog (lines 1175-1249)
CallBuildCloog ==
    /\ env_calls < MaxEnvCalls
    /\ \E x86_64 \in BOOLEAN, outcome \in LibraryOutcomes :
         LET r == BuildLibraryEnv(x86_64, outcome, Environ(PATH, CC))
         IN  EnvCallEnds("build_cloog", IF x86_64 THEN "x86_64" ELSE "i686",
                         outcome, r.raised, r.env)
    /\ UNCHANGED <<mirrorVars, moduleVars, selVars, fetchVars, untarVars,
                   mainVars>>

\* a call of build_mpc (lines 1252-1328)
CallBuildMpc ==
    /\ env_calls < MaxEnvCalls
    /\ \E x86_64 \in BOOLEAN, outcome \in LibraryOutcomes :
         LET r == BuildLibraryEnv(x86_64, outcome, Environ(PATH, CC))
         IN  EnvCallEnds("build_mpc", IF x86_64 THEN "x86_64" ELSE "i686",
                         outcome, r.raised, r.env)
    /\ UNCHANGED <<mirrorVars, moduleVars, selVars, fetchVars, untarVars,
                   mainVars>>

\* a call of build_mingw_header (lines 829-943)
CallBuildMingwHeader ==
    /\ env_calls < MaxEnvCalls
    /\ \E outcome \in StepOutcomes({"configure", "install"}) :
         EnvCallEnds("build_mingw_header", outcome.target, outcome.step,
                     FALSE,
                     BuildMingwHeaderEnv(outcome, Environ(PATH, CC)))
    /\ UNCHANGED <<mirrorVars, moduleVars, selVars, fetchVars, untarVars,
                   mainVars>>

\* a call of build_crt (lines 1444-1552)
CallBuildCrt ==
    /\ env_calls < MaxEnvCalls
    /\ \E outcome \in StepOutcomes({"configure", "make", "install"}) :
         LET r == BuildCrtEnv(outcome, Environ(PATH, CC))
         IN  EnvCallEnds("build_crt", outcome.target, outcome.step,
                         r.raised, r.env)
    /\ UNCHANGED <<mirrorVars, moduleVars, selVars, fetchVars, untarVars,
                   mainVars>>

\* a call of build_winpthreads (lines 1636-1730)
CallBuildWinpthreads ==
    /\ env_calls < MaxEnvCalls
    /\ \E outcome \in StepOutcomes({"no_configure", "configure", "make",
                                    "install"}) :
         LET r == BuildWinpthreadsEnv(outcome, Environ(PATH, CC))
         IN  EnvCallEnds("build_winpthreads", outcome.target, outcome.step,
                         r.raised, r.env)
    /\ UNCHANGED <<mirrorVars, moduleVars, selVars, fetchVars, untarVars,
                   mainVars>>

\* the values PATH and CC may have when a function is entered: PATH empty
\* or with entries, CC not set, empty, or naming a compiler
InitialPaths == {<<>>, <<"/usr/bin">>, <<"/usr/local/bin", ":", "/usr/bin">>}
InitialCCs == {Unset, EnvValue(""), EnvValue("cc"), EnvValue("gcc")}

InitEnv ==
    /\ PATH \in InitialPaths
    /\ CC \in InitialCCs
    /\ env_call = NoEnvCall
    /\ env_calls = 0
    /\ MirrorOff
    /\ ModuleOff
    /\ SelOff
    /\ FetchOff
    /\ UntarOff
    /\ MainOff

NextEnv ==
    \/ SetEnvRestoreEnv
    \/ CallBuildGmp
    \/ CallBuildMpfr
    \/ CallBuildIsl
    \/ CallBuildCloog
    \/ CallBuildMpc
    \/ CallBuildMingwHeader
    \/ CallBuildCrt
    \/ CallBuildWinpthreads

SpecEnv == InitEnv /\ [][NextEnv]_vars

----------------------------------------------------------------------------
(* The version selection on every listing of at most MaxListing entries *)

InitSelect ==
    /\ sel_entries \in SeqsUpTo(ArchiveEntries \cup FolderEntries
                                  \cup LinkEntries \cup OtherEntries,
                                MaxListing)
    /\ sel_mode \in {"mlsd", "nlst"}
    /\ sel_preferred \in ListedVersions \cup {V_99}
    /\ sel_pc = "input"
    /\ sel_result = PopFromEmptyList
    /\ MirrorOff
    /\ ModuleOff
    /\ FetchOff
    /\ UntarOff
    /\ MainOff
    /\ EnvOff

NextSelect ==
    \/ SelectFolder
    \/ SelectFile
    \/ SelectLink

SpecSelect == InitSelect /\ [][NextSelect]_vars

----------------------------------------------------------------------------
(* Calls of untar on one archive file *)

\* the archive as a fetch left it (or did not), the sidecar as an earlier
\* run left it, the package folder made by main (lines 1842-1848)
InitUntar ==
    /\ archive \in {Absent} \cup Contents
    /\ sidecar \in {NoSidecar} \cup Digests
    /\ dest \in [exists : BOOLEAN, full : {{}}, partial : {{}}]
    /\ ulog = <<>>
    /\ MirrorOff
    /\ ModuleOff
    /\ SelOff
    /\ FetchOff
    /\ MainOff
    /\ EnvOff

NextUntar ==
    \/ UntarCall
    \/ ArchiveReplaced

SpecUntar == InitUntar /\ [][NextUntar]_vars

----------------------------------------------------------------------------
(* Properties of select_mirror *)

\* the hosts of server_list whose connect succeeds
Reachable == {h \in Range(server_list) : net[h].kind = "ok"}

\* v is the k-th smallest of the latencies of the reachable hosts
IsKthSmallest(v, k) ==
    /\ Cardinality({h \in Reachable : net[h].lat < v}) < k
    /\ k <= Cardinality({h \in Reachable : net[h].lat <= v})

ReturnedAReachableHost ==
    /\ sm_result[1] \in Reachable
    /\ sm_result[2] = net[sm_result[1]].lat

\* C3 (as claimed): every ftp_get started by ftp_get_by_component is given
\* the host select_mirror picked for the component's mirror group, and the
\* hardcoded default only when select_mirror returned no mirror.
C3_ConnectsToSelectedMirror ==
    \A i \in 1..Len(connected) :
        LET c == FTP_DOWNLOADS[i]
            picked == IF MirrorGroup(c) = "gnu" THEN mirrorGnu ELSE mirrorGcc
            default == IF MirrorGroup(c) = "gnu" THEN DefaultGnuServer
                                                 ELSE DefaultGccServer
        IN  connected[i] = IF picked # NoneHost THEN picked ELSE default

\* C4 (as claimed): with every host of server_list unreachable (unresolved
\* name, refused connection or timeout), select_mirror does not raise and
\* what it returns is (None, None).
C4_AllUnreachableReturnsNone ==
    (\A h \in Range(server_list) : net[h].kind # "ok")
        => /\ sm_pc # "raised"
           /\ sm_pc = "returned" => sm_result = <<NoneHost, NoneLatency>>

\* C5 (as claimed): with reachable and erroring hosts mixed, select_mirror
\* completes (it does not raise), no erroring host is in the ranking, and
\* the host returned is one whose connect succeeded, with its latency.
C5_ErroringHostsExcluded ==
    (Reachable # {} /\ Reachable # Range(server_list))
        => /\ sm_pc # "raised"
           /\ \A i \in 1..Len(benchmark) : benchmark[i].key \in Reachable
           /\ sm_pc = "returned" => ReturnedAReachableHost

\* C6: when select_mirror returns with n >= 1 successful hosts, a rank k
\* with 1 <= k <= n yields a host whose latency is the k-th smallest of the
\* successes, and a rank k <= 0 yields a host with the smallest latency.
C6_RankSelectsKthFastest ==
    (sm_pc = "returned" /\ Cardinality(Reachable) >= 1)
        => LET n == Cardinality(Reachable)
           IN  /\ ReturnedAReachableHost
               /\ (1 <= priority /\ priority <= n)
                     => IsKthSmallest(sm_result[2], priority)
               /\ priority <= 0 => IsKthSmallest(sm_result[2], 1)

\* the second fastest was asked for and is slower than the fastest
C6_Witness ==
    /\ sm_pc = "returned"
    /\ Cardinality(Reachable) >= 2
    /\ priority = 2
    /\ \E h \in Reachable : net[h].lat < sm_result[2]

\* C7: when select_mirror returns with n >= 1 successful hosts and the rank
\* asked for is greater than n, the host returned is a successful one with
\* the largest latency.
C7_RankBeyondClampsToSlowest ==
    (sm_pc = "returned" /\ Cardinality(Reachable) >= 1
                        /\ priority > Cardinality(Reachable))
        => /\ ReturnedAReachableHost
           /\ \A h \in Reachable : net[h].lat <= sm_result[2]

\* a rank beyond the two or more successes was asked for and the host
\* returned is slower than another success
C7_Witness ==
    /\ sm_pc = "returned"
    /\ Cardinality(Reachable) >= 2
    /\ priority > Cardinality(Reachable)
    /\ \E h \in Reachable : net[h].lat < sm_result[2]

----------------------------------------------------------------------------
(* Properties of the version selection *)

\* the matches the selection that was applied chose among
SelMatches ==
    IF sel_pc = "folder"
    THEN FolderMatches(sel_entries, sel_mode, GccFolderPattern)
    ELSE IF sel_pc = "file"
    THEN FileMatches(sel_entries, sel_mode, GccFilePattern)
    ELSE LinkMatches(sel_entries, MingwPattern)

SelApplied == sel_pc \in {"folder", "file", "link"}

SelPreferredAt ==
    {i \in 1..Len(SelMatches) : Group(SelMatches[i].name) = sel_preferred}

\* C1 (as claimed): if exactly one matching entry has the preferred version
\* as its version string, the selection (folder, file or link) returns that
\* entry, whatever its position in the listing, the first included.
C1_PreferredVersionIsSelected ==
    (SelApplied /\ Cardinality(SelPreferredAt) = 1)
        => \A i \in SelPreferredAt :
               sel_result = [kind |-> "ok", name |-> SelMatches[i].name]

----------------------------------------------------------------------------
(* Properties of ftp_get and html_get *)

DownloadOps == {"retr", "urlretrieve"}

\* call j is given a destination that an earlier call returned as fetched
FetchedBefore(j) ==
    \E i \in 1..(j - 1) :
        /\ log[i].ret.kind = "path"
        /\ log[i].ret.path = log[j].final_path

\* C8 (as claimed): a call of ftp_get or html_get whose destination path an
\* earlier call has fetched performs no network operation at all.
C8_SecondFetchNoNetwork ==
    \A j \in 1..Len(log) : FetchedBefore(j) => log[j].netops = <<>>

\* C8 (amended): a call of ftp_get or html_get whose destination path an
\* earlier call has fetched finds the path present, downloads nothing (no
\* RETR, no urlretrieve), leaves the local files as they are and returns
\* the path; the network operations it performs are those that precede the
\* check of the path.
C8_SecondFetchNoDownload ==
    \A j \in 1..Len(log) :
        FetchedBefore(j)
            => /\ log[j].skipped
               /\ Range(log[j].netops) \cap DownloadOps = {}
               /\ log[j].ret = RetPath(log[j].final_path)
               /\ log[j].files = log[j - 1].files

\* the first call downloaded the archive, the second call (same arguments,
\* same site) ended at the check of the path, for ftp_get and for html_get
C8_Witness ==
    /\ Len(log) = 2
    /\ log[1].ret.kind = "path" /\ ~log[1].skipped
    /\ Range(log[1].netops) \cap DownloadOps # {}
    /\ log[2].skipped
    /\ log[2].final_path = log[1].ret.path
    /\ log[2].netops # <<>>

----------------------------------------------------------------------------
(* Properties of untar *)

\* call j follows a call on the same bytes whose extraction succeeded
AfterSuccessUnchanged(j) ==
    /\ j >= 2
    /\ ulog[j - 1].extract_ok
    /\ ulog[j].archive = ulog[j - 1].archive

\* call j follows a call whose extraction succeeded, on an archive whose
\* bytes, and digest, are not those of that call
AfterSuccessChanged(j) ==
    /\ j >= 2
    /\ ulog[j - 1].extract_ok
    /\ ulog[j].archive # ulog[j - 1].archive
    /\ Md5(ulog[j].archive) # Md5(ulog[j - 1].archive)

\* C9 (as claimed): after a successful extraction, a second untar of the
\* unchanged archive does not unpack and returns the destination; a second
\* untar of an archive whose bytes and digest changed extracts again and
\* rewrites the sidecar with the new digest.
C9_SecondUntar ==
    \A j \in 1..Len(ulog) :
        /\ AfterSuccessUnchanged(j)
             => (~ulog[j].attempted /\ ulog[j].ret = "dest")
        /\ AfterSuccessChanged(j)
             => /\ ulog[j].unpacked
                /\ ulog[j].sidecar_after = Md5(ulog[j].archive)

\* C9 (amended): after a successful extraction, a second untar of the
\* unchanged archive does not unpack and returns the destination; a second
\* untar of an archive whose bytes and digest changed attempts the
\* extraction again, and rewrites the sidecar with the new digest when that
\* extraction completes without error (otherwise the sidecar keeps the old
\* digest).
C9_SecondUntarAmended ==
    \A j \in 1..Len(ulog) :
        /\ AfterSuccessUnchanged(j)
             => (~ulog[j].attempted /\ ~ulog[j].unpacked
                    /\ ulog[j].ret = "dest")
        /\ AfterSuccessChanged(j)
             => /\ ulog[j].attempted
                /\ ulog[j].extract_ok
                     => ulog[j].sidecar_after = Md5(ulog[j].archive)
                /\ ~ulog[j].extract_ok
                     => ulog[j].sidecar_after = Md5(ulog[j - 1].archive)

\* three calls: the first extracts, the second skips the unchanged archive,
\* the third extracts the replaced archive and records its digest
C9_Witness ==
    /\ Len(ulog) = 3
    /\ ulog[1].extract_ok
    /\ AfterSuccessUnchanged(2) /\ ~ulog[2].attempted
    /\ Md5(ulog[3].archive) # Md5(ulog[2].archive)
    /\ ulog[3].extract_ok
    /\ sidecar = Md5(ulog[3].archive)

\* C10: a call of untar changes the sidecar only when its extractall
\* completed without error, and then to the digest of the archive; a call
\* whose extraction did not complete (the open failed, ExtractError, IOError
\* or another exception) leaves the sidecar as it was, and the next untar of
\* the same archive attempts the extraction again.
C10_SidecarOnlyAfterSuccess ==
    /\ \A j \in 1..Len(ulog) :
          /\ ulog[j].sidecar_after # ulog[j].sidecar_before
               => /\ ulog[j].extract_ok
                  /\ ulog[j].sidecar_after = Md5(ulog[j].archive)
          /\ ~ulog[j].extract_ok
               => ulog[j].sidecar_after = ulog[j].sidecar_before
          /\ (j >= 2 /\ ulog[j - 1].attempted /\ ~ulog[j - 1].extract_ok
                     /\ ulog[j].archive = ulog[j - 1].archive)
               => ulog[j].attempted
    /\ Len(ulog) >= 1 => sidecar = ulog[Len(ulog)].sidecar_after

\* an extraction ended with IOError under a sidecar of an earlier run, the
\* sidecar was kept, and the next call on the same archive extracted it
C10_Witness ==
    /\ Len(ulog) >= 2
    /\ ulog[1].unpacked /\ ~ulog[1].extract_ok /\ ulog[1].ret = "dest"
    /\ ulog[1].sidecar_before # NoSidecar
    /\ ulog[1].sidecar_after = ulog[1].sidecar_before
    /\ ulog[2].archive = ulog[1].archive
    /\ ulog[2].attempted /\ ulog[2].extract_ok

\* a call of untar that failed: the archive is missing, or the extraction
\* was attempted and did not complete (the open failed, or extractall did)
UntarFailed(r) == r.archive = Absent \/ (r.attempted /\ ~r.extract_ok)

\* C11 (as claimed): untar returns None whenever it fails (archive missing,
\* archive unsupported or corrupt, error during the extraction), and it
\* returns the destination only when the extraction completed or was
\* skipped for a matching hash.
C11_UntarFailureReturnsNone ==
    \A j \in 1..Len(ulog) :
        /\ UntarFailed(ulog[j]) => ulog[j].ret = "None"
        /\ ulog[j].ret = "dest"
             => (ulog[j].extract_ok \/ ~ulog[j].attempted)

----------------------------------------------------------------------------
(* Properties of ftp_get and html_get: failures and the local path *)

\* the listing mode a finished ftp_get worked in
ListingModeOf(r) == IF "nlst" \in Range(r.netops) THEN "nlst" ELSE "mlsd"

\* the call came to a selection and no entry of the listing (no href of the
\* page) fully matched the pattern: the folder pattern on the base folder,
\* or the filename pattern on the folder the file is selected from
NoEntryMatches(r) ==
    IF r.fn = "html_get"
    THEN /\ r.netops # <<>>
         /\ r.ret.exc # "URLError"
         /\ LinkMatches(page, fetch_args.filename_re) = <<>>
    ELSE /\ Len(r.netops) >= 4
         /\ IF ~fetch_args.has_folder_re
            THEN FileMatches(ftp_site.base, ListingModeOf(r),
                             fetch_args.filename_re) = <<>>
            ELSE \/ FolderMatches(ftp_site.base, ListingModeOf(r),
                                  fetch_args.folder_re) = <<>>
                 \/ /\ r.folder # NoName
                    /\ r.ret.exc # "ftplib.error_perm"
                    /\ FileMatches(ftp_site.sub[r.folder.ver],
                                   ListingModeOf(r),
                                   fetch_args.filename_re) = <<>>

\* C12 (as claimed): when no listing entry (ftp_get) or no href (html_get)
\* fully matches the pattern, the call returns None; it does not raise.
C12_NoMatchReturnsNone ==
    \A j \in 1..Len(log) : NoEntryMatches(log[j]) => log[j].ret = RetNone

\* the local files before call j
FilesBefore(j) == IF j = 1 THEN <<>> ELSE log[j - 1].files

\* an ftp_get that went to the network and did not get logged in
ConnectOrLoginFailed(r) ==
    r.fn = "ftp_get" /\ r.netops # <<>> /\ ~r.loggedIn

\* C13 (as claimed): when the connect or the login fails, ftp_get returns
\* False (not the None of invalid arguments or of not-found), it does not
\* raise and it downloads nothing.
C13_ConnectFailureReturnsFalse ==
    \A j \in 1..Len(log) :
        ConnectOrLoginFailed(log[j])
            => /\ log[j].ret = RetFalse
               /\ Range(log[j].netops) \cap DownloadOps = {}
               /\ log[j].files = FilesBefore(j)

\* the file name of the remote archive a call selected
RemoteFilename(r) ==
    IF r.fn = "html_get" THEN Basename(r.archive) ELSE r.archive

\* C14: the local path computed by ftp_get and html_get is the caller's
\* path itself when save_path names a file, the caller's directory joined
\* with the remote file name when save_path is a bare directory, and the
\* current directory joined with the remote file name when no save_path is
\* given; when save_path has a directory part that directory exists once
\* the path is computed.
C14_LocalSavePath ==
    \A j \in 1..Len(log) :
        LET r == log[j]
            sp == fetch_args.save_path
        IN  r.final_path # NonePath
              => /\ sp = SavePathFile
                      => r.final_path = [dir |-> DlDir,
                                         base |-> SavePathFile.base]
                 /\ sp = SavePathDir
                      => r.final_path = [dir |-> DlDir,
                                         base |-> RemoteFilename(r)]
                 /\ sp = NoSavePath
                      => r.final_path = [dir |-> WorkDir,
                                         base |-> RemoteFilename(r)]
                 /\ (sp.given /\ sp.dir # "")
                      => (DlDir \in r.dirs /\ DlDir \in dirs)

\* a download into the bare directory ./dl/, which the call created: the
\* file is saved there under the name of the remote archive
C14_Witness ==
    /\ Len(log) >= 1
    /\ fetch_args.save_path = SavePathDir
    /\ log[1].ret.kind = "path" /\ ~log[1].skipped
    /\ log[1].final_path = [dir |-> DlDir, base |-> RemoteFilename(log[1])]
    /\ DlDir \in log[1].dirs
    /\ log[1].final_path \in DOMAIN files

\* C15: against a folder holding pkg-1.0.tar.gz and pkg-2.5.tar.gz, in
\* either listing order and in either listing mode, ftp_get with the
\* pattern pkg-([0-9.]+)\.tar\.gz selects pkg-2.5.tar.gz and downloads it,
\* with the preferred version 2.5 and with the absent 9.9.
C15_PkgScenario ==
    \A j \in 1..Len(log) :
        LET r == log[j]
        IN  /\ r.ret.exc # "IndexError"
            /\ Len(r.netops) >= 4 => r.archive = PkgArchive(V_2_5).name
            /\ "retr" \in Range(r.netops)
                 => r.files[r.final_path].src = PkgArchive(V_2_5).name
            /\ (r.ret.kind = "path" /\ ~r.skipped)
                 => r.files[r.final_path]
                        = Content(PkgArchive(V_2_5).name, TRUE)

\* pkg-2.5.tar.gz is listed first and is the preferred version, the server
\* has no MLSD: the archive downloaded is pkg-2.5.tar.gz
C15_Witness ==
    /\ Len(log) >= 1
    /\ ftp_site.base[1] = PkgArchive(V_2_5)
    /\ fetch_args.preferred_version = V_2_5
    /\ "nlst" \in Range(log[1].netops)
    /\ log[1].ret.kind = "path" /\ ~log[1].skipped
    /\ files[log[1].final_path] = Content(PkgArchive(V_2_5).name, TRUE)

----------------------------------------------------------------------------
(* Properties of the argument parsing and of main *)

\* the fetch of the task of component c has been called
FetchCalled(c) == task[c].status # "queued"

\* C16 (as claimed): the fetch of gcc, of binutils and of mingw-w64 is given
\* as preferred version the string the operator supplied with --gcc,
\* --binutils and --mingw; html_get is given the --mingw value.
C16_OperatorVersionIsPreferred ==
    /\ FetchCalled("gcc") => task["gcc"].preferred_version = cli.gcc
    /\ FetchCalled("binutils")
         => task["binutils"].preferred_version = cli.binutils
    /\ FetchCalled("mingw64")
         => task["mingw64"].preferred_version = cli.mingw

\* a call of the step before the i-th call returned success
SucceededBefore(step, i) ==
    \E j \in 1..(i - 1) : builds[j].step = step /\ builds[j].ok

\* C17: build_gcc2 is called only after build_winpthreads has returned
\* success, and build_winpthreads only after build_crt has returned success.
C17_Gcc2AfterWinpthreadsAfterCrt ==
    \A i \in 1..Len(builds) :
        /\ builds[i].step = "build_gcc2"
             => SucceededBefore("build_winpthreads", i)
        /\ builds[i].step = "build_winpthreads"
             => SucceededBefore("build_crt", i)

\* build_gcc2 was called, after the CRT and winpthreads were built
C17_Witness ==
    \E i \in 1..Len(builds) :
        /\ builds[i].step = "build_gcc2"
        /\ SucceededBefore("build_crt", i)
        /\ SucceededBefore("build_winpthreads", i)

\* the steps whose installed prefix a step consumes
Consumes(step) ==
    CASE step \in {"build_mpfr", "build_isl", "build_cloog"} -> {"build_gmp"}
      [] step = "build_mpc" -> {"build_gmp", "build_mpfr"}
      [] step = "build_gcc1" -> {"build_binutils", "build_mingw_header",
                                 "build_gmp", "build_mpfr", "build_isl",
                                 "build_mpc"}
      [] OTHER -> {}

\* the prefix the call of a step returned
PrefixReturned(step) ==
    builds[CHOOSE j \in 1..Len(builds) : builds[j].step = step].value[1]

\* C18: a build step is called only after every step whose prefix it
\* consumes has returned success (build_mpfr, build_isl, build_cloog after
\* build_gmp; build_mpc after build_gmp and build_mpfr; build_gcc1 after
\* build_binutils, build_mingw_header, build_gmp, build_mpfr, build_isl and
\* build_mpc), and the prefixes it is given are the values those steps
\* returned.
C18_BuildAfterItsPrefixes ==
    \A i \in 1..Len(builds) :
        /\ \A dep \in Consumes(builds[i].step) : SucceededBefore(dep, i)
        /\ builds[i].step \in {"build_mpfr", "build_isl", "build_cloog"}
             => builds[i].prefixes = <<PrefixReturned("build_gmp")>>
        /\ builds[i].step = "build_mpc"
             => builds[i].prefixes = <<PrefixReturned("build_gmp"),
                                       PrefixReturned("build_mpfr")>>
        /\ builds[i].step = "build_gcc1"
             => builds[i].prefixes = <<PrefixReturned("build_gmp"),
                                       PrefixReturned("build_mpfr"),
                                       PrefixReturned("build_isl"),
                                       PrefixReturned("build_mpc")>>

\* build_gcc1 was called with the four prefixes, none of them None and no
\* two of them the same
C18_Witness ==
    \E i \in 1..Len(builds) :
        /\ builds[i].step = "build_gcc1"
        /\ Len(builds[i].prefixes) = 4
        /\ NoPrefix \notin Range(builds[i].prefixes)
        /\ Cardinality(Range(builds[i].prefixes)) = 4

\* C19: once a build step has reported failure, main calls no further build
\* step, does not generate the readme and the scripts, and returns False,
\* and the process exits with status 1; main returns True, and the readme
\* and the scripts are generated, only if all eleven build steps succeeded.
C19_FailureEndsTheRun ==
    /\ \A i \in 1..Len(builds) :
          (~builds[i].ok /\ ~builds[i].raised)
              => /\ i = Len(builds)
                 /\ ~documented
                 /\ main_ret = "False"
                 /\ main_pc \in {"returned", "exited"}
                 /\ main_pc = "exited" => exit_status = 1
    /\ (main_ret = "True" \/ documented)
          => /\ Len(builds) = 11
             /\ \A i \in 1..Len(builds) : builds[i].ok
             /\ {builds[i].step : i \in 1..Len(builds)} = Range(BuildSteps)

\* build_mpc reported failure after six steps had succeeded: the process
\* has exited with status 1 and no readme was generated
C19_Witness ==
    /\ main_pc = "exited"
    /\ exit_status = 1
    /\ Len(builds) = 7
    /\ builds[7].step = "build_mpc"
    /\ ~builds[7].ok /\ ~builds[7].raised
    /\ ~documented

\* the acquisition is over: main is past the two pool.map calls, or was
\* left by an exception
AcquisitionOver ==
    main_pc \notin {"parse", "main", "ftp_map", "html_map"}

MainEnded == main_pc \in {"returned", "raised", "exited"}

\* C20 (as claimed): when the source tree of a component is missing from
\* pkg_dir after the acquisition, main does not call a build step on that
\* component's sources and ends by returning False, never by an exception.
C20_MissingTreeReturnsFalse ==
    \A c \in Range(all_components) :
        (AcquisitionOver /\ c \notin pkg_dir)
            => /\ \A i \in 1..Len(builds) :
                      StepSource(builds[i].step) # c
               /\ main_pc # "raised"
               /\ MainEnded => main_ret = "False"

----------------------------------------------------------------------------
(* The two pool workers and the files of the tasks *)

\* the components whose task a worker has taken
StartedTasks == {c \in DOMAIN task : task[c].status # "queued"}

\* C21: under every interleaving of the two workers no two tasks write the
\* same archive file or the same sidecar: the files two tasks are writing
\* at the same time are different files, and the archive and the sidecar of
\* a started task are no file of the pair of another started task
C21_TasksWriteDistinctFiles ==
    \A c1 \in StartedTasks : \A c2 \in StartedTasks \ {c1} :
        /\ TaskWrites(c1) \cap TaskWrites(c2) = {}
        /\ PairWrites(c1) \cap PairWrites(c2) = {}

\* C21 happens: both workers are in a task at once, one in the fetch of gcc
\* and one in the fetch or the untar of mpc
C21_Witness ==
    /\ \E w \in Workers : worker[w] = "gcc"
    /\ \E w \in Workers : worker[w] = "mpc"
    /\ task["gcc"].status = "fetch"
    /\ task["mpc"].status \in {"fetch", "untar"}

----------------------------------------------------------------------------
(* select_mirror and the order of server_list *)

\* the lists that hold the hosts of server_list in another order
Reorderings(list) ==
    {[i \in 1..Len(list) |-> list[f[i]]] : f \in Permutations(1..Len(list))}

\* the call has ended, by its return or by an exception
SelectMirrorEnded == sm_pc \in {"returned", "raised"}

\* what the call that ended gave
SelectMirrorOutcome ==
    [raised |-> sm_pc = "raised", result |-> sm_result]

\* the latencies of the reachable hosts of the list are pairwise different
DistinctLatencies ==
    \A g \in Reachable : \A h \in Reachable \ {g} : net[g].lat # net[h].lat

\* C22 as stated: for fixed outcomes and latencies of the hosts, the host
\* select_mirror returns is the host it returns on every reordering of
\* server_list
C22_HostIndependentOfOrder ==
    SelectMirrorEnded
        => /\ SelectMirrorOutcome = SelectMirrorOn(server_list, priority, net)
           /\ \A list \in Reorderings(server_list) :
                 SelectMirrorOn(list, priority, net).result[1] = sm_result[1]

\* C22 amended: on every reordering of server_list the call ends the same
\* way (return or exception) and returns the same latency; it returns the
\* same host when the latencies of the reachable hosts are pairwise
\* different; else the host returned on a reordering is a reachable host of
\* the same latency
C22_LatencyIndependentOfOrder ==
    SelectMirrorEnded
        => /\ SelectMirrorOutcome = SelectMirrorOn(server_list, priority, net)
           /\ \A list \in Reorderings(server_list) :
                 LET other == SelectMirrorOn(list, priority, net)
                 IN  /\ other.raised = (sm_pc = "raised")
                     /\ other.result[2] = sm_result[2]
                     /\ DistinctLatencies => other.result[1] = sm_result[1]
                     /\ (sm_pc = "returned" /\ Reachable # {})
                           => /\ other.result[1] \in Reachable
                              /\ net[other.result[1]].lat = sm_result[2]

\* C22 happens: three different hosts were probed, at least two answered
\* with different latencies, and the call returned the fastest
C22_Witness ==
    /\ sm_pc = "returned"
    /\ Cardinality(Range(server_list)) = 3
    /\ Cardinality(Reachable) >= 2
    /\ DistinctLatencies
    /\ priority = 1
    /\ sm_result[1] # server_list[1]

----------------------------------------------------------------------------
(* The order of fetch, untar and the build steps *)

\* a build step of main has been started, or main stands before one
BuildStarted ==
    builds # <<>> \/ main_pc \in Range(BuildSteps) \cup {"documentation"}

\* the fetch and the untar of the component have both returned
Acquired(c) == task[c].status = "done"

\* in this step the untar of a component starts
UntarStarts(c) == task[c].status # "untar" /\ task'[c].status = "untar"

\* C23: the untar of a component starts only from the fetch of that
\* component, which has returned; no build step is started before the fetch
\* and the untar of all eight components have returned; and the HTML
\* component is not taken before the seven FTP components are through
C23_FetchThenUntarThenBuild ==
    /\ [](BuildStarted => \A c \in DOMAIN task : Acquired(c))
    /\ [](\A h \in Range(HTML_DOWNLOADS) :
             task[h].status # "queued"
                 => \A c \in Range(FTP_DOWNLOADS) : Acquired(c))
    /\ [][\A c \in DOMAIN task :
             UntarStarts(c) => task[c].status = "fetch"]_vars

\* C23 happens: the first build step was called after the eight tasks
C23_Witness ==
    /\ Len(builds) >= 1
    /\ DOMAIN task = Range(FTP_DOWNLOADS) \cup Range(HTML_DOWNLOADS)
    /\ \A c \in DOMAIN task : Acquired(c)

----------------------------------------------------------------------------
(* ftp_get: the folder and the file it selects *)

\* the listing the file of a finished ftp_get was selected from
FileListingOf(r) ==
    IF fetch_args.has_folder_re THEN ftp_site.sub[r.folder.ver]
    ELSE ftp_site.base

\* the call selected a folder of the base listing
FolderChosen(r) == r.fn = "ftp_get" /\ r.folder # NoName

\* the call selected a file to download
FileChosen(r) == r.fn = "ftp_get" /\ r.archive # NoName

\* the folder C24 names: among the folders ftp_get matched, the first with
\* the preferred folder version, else the one with the string-maximal
\* version
FolderToChoose(r) ==
    LET matches == FolderMatches(ftp_site.base, ListingModeOf(r),
                                 fetch_args.folder_re)
        items == VersionItems(matches)
        key == FirstKeyWithVersion(items,
                                   fetch_args.preferred_folder_version)
    IN  IF key # NoneKey THEN matches[key + 1].name
        ELSE matches[LatestKey(items) + 1].name

\* C24 (as claimed): with a folder pattern ftp_get chooses the matching
\* subdirectory of the preferred folder version, else the string-maximal
\* one, and selects the file from the listing of that subdirectory; without
\* a folder pattern it selects the file from the listing of the base folder
C24_FolderThenFileFromIt ==
    \A j \in 1..Len(log) :
        LET r == log[j]
        IN  /\ (FolderChosen(r) /\ fetch_args.has_folder_re)
                  => r.folder = FolderToChoose(r)
            /\ FileChosen(r)
                  => /\ fetch_args.has_folder_re
                           => /\ FolderChosen(r)
                              /\ r.folder = FolderToChoose(r)
                     /\ ~fetch_args.has_folder_re => r.folder = NoName
                     /\ \E e \in Range(FileListingOf(r)) :
                            e.name = r.archive

\* the kind of the entry of that name in a listing (names are listed once)
KindOf(listing, name) ==
    (CHOOSE e \in Range(listing) : e.name = name).type

\* the call changed into the folder it selected
Descended(r) ==
    FolderChosen(r) /\ r.ret # Raised("ftplib.error_perm")

\* C25 (as claimed): in both listing modes the file ftp_get chooses for
\* download is an entry of kind plain file and the subdirectory it descends
\* into is an entry of kind directory
C25_ChosenEntriesHaveTheirKind ==
    \A j \in 1..Len(log) :
        LET r == log[j]
        IN  /\ FileChosen(r)
                  => KindOf(FileListingOf(r), r.archive) = "file"
            /\ Descended(r) => KindOf(ftp_site.base, r.folder) = "dir"

----------------------------------------------------------------------------
(* select_mirror: the probes and their sockets *)

\* the positions of server_list whose host a connect was tried on: the loop
\* is at position idx, and the call that was left by an exception had tried
\* the host at idx
ProbedPositions ==
    {i \in 1..Len(server_list) : i < idx \/ (i = idx /\ sm_pc = "raised")}

\* C26 (as claimed): whatever the outcome of each probe, select_mirror has
\* at most one probe socket open at any time, and when it finishes it has
\* probed each candidate of server_list once and has closed every socket it
\* opened
C26_EachHostOnceAllSocketsClosed ==
    /\ openSocks <= 1
    /\ SelectMirrorEnded
          => /\ ProbedPositions = 1..Len(server_list)
             /\ openSocks = 0

----------------------------------------------------------------------------
(* ftp_get: the session at the end of the call *)

\* C27 (as claimed): whenever ftp_get finishes after a successful login its
\* FTP session has been closed, on the skip path, after a download and when
\* it ends in failure
C27_SessionClosedAfterLogin ==
    \A j \in 1..Len(log) :
        (log[j].fn = "ftp_get" /\ log[j].loggedIn)
            => /\ log[j].closed
               /\ log[j].netops[Len(log[j].netops)] = "quit"

----------------------------------------------------------------------------
(* The file a skipped download stands for *)

\* C28 (as claimed): whenever ftp_get or html_get skips the download
\* because the save path exists, the file at that path is the complete
\* content of a download that finished
C28_SkipOnlyOnCompleteFile ==
    \A j \in 1..Len(log) :
        log[j].skipped
            => /\ log[j].final_path \in DOMAIN FilesBefore(j)
               /\ FilesBefore(j)[log[j].final_path].complete

----------------------------------------------------------------------------
(* PATH and CC across set_env / restore_env and the build functions *)

\* the last call returned and left PATH and CC as they were when it was
\* entered
EnvAsAtEntry ==
    /\ env_call.path_after = env_call.path_before
    /\ env_call.cc_after = env_call.cc_before

LibraryBuilds ==
    {"build_gmp", "build_mpfr", "build_isl", "build_cloog", "build_mpc"}

\* C29 (as claimed): for every value PATH and CC have at entry, the empty
\* string among them, PATH and CC after set_env followed by restore_env are
\* what they were before set_env; and build_gmp, build_mpfr, build_isl,
\* build_cloog and build_mpc return, on success and on each of their three
\* failure paths, with PATH and CC as at entry
C29_RestoreEnvUndoesSetEnv ==
    (/\ env_call.fn \in LibraryBuilds \cup {"set_env; restore_env"}
     /\ env_call.cc_before.set
     /\ ~env_call.raised)
        => EnvAsAtEntry

\* C30 (as claimed): when build_mingw_header, build_crt or build_winpthreads
\* returns, with success or after a failed step for either target, PATH and
\* CC are what they were when the function was entered
C30_HeaderCrtWinpthreadsKeepEnv ==
    (/\ env_call.fn \in {"build_mingw_header", "build_crt",
                         "build_winpthreads"}
     /\ ~env_call.raised)
        => EnvAsAtEntry

====
